---- MODULE Spec2Model ----
(***************************************************************************)
(* A model of the WhatsApp multi-session service (whatsappService.js and   *)
(* its callers): the session registry, the per-chat message buffers and    *)
(* chunk timers, the webhook sends in flight, start/stop listening and the *)
(* engine events that drive reconnectionAttempts.                          *)
(*                                                                         *)
(* Node runs every handler to its next await without interleaving, so each *)
(* action is the code between two suspension points.                       *)
(***************************************************************************)
EXTENDS Integers, Sequences, FiniteSets, TLC

\* ------------------------------------------------------------------ bounds
\* Inbound messages the engine emits over a run of Spec.
MaxMsgs == 3
\* Inbound messages the engine emits over a run of SpecChunk.
MaxChunkMsgs == 5
\* Webhook sends that fail over a run.
MaxFails == 1
\* stopListening calls over a run.
MaxStops == 1
\* Milliseconds the clock advances in one Tick, at most.
TickMs == 30000
\* The largest value reconnectionAttempts is followed to.
MaxAttempts == 6
\* Session objects stored in the registry over a run.
MaxCreates == 2
\* Reconnection callbacks scheduled and not yet run, per session.
MaxReconnects == 2
\* A value of RECONNECTION_MAX_ATTEMPTS other than the default.
LowMaxAttempts == 3
MaxFolders == 2
\* A MAX_SESSION_ID_LENGTH short enough to write ids longer than it.
LowMaxIdLength == 3

\* The characters ids are written with: three letters, a capital, the
\* hyphen and a character the pattern does not allow.
IdChars == {"a", "p", "i", "I", "-", "!"}

\* ------------------------------------------------------ program constants
\* config.messageChunkSize (MESSAGE_CHUNK_SIZE, default '5').
messageChunkSize == 5
\* config.chunkSendIntervalMs (CHUNK_SEND_INTERVAL_MS, default '30000').
chunkSendIntervalMs == 30000
\* The default of config.security.maxSessionIdLength (MAX_SESSION_ID_LENGTH).
DefaultMaxIdLength == 50

\* The default of config.maxSessions (MAX_SESSIONS).
DefaultMaxSessions == 30
\* The ceiling handleAutomaticReconnection compares reconnectionAttempts with.
maxReconnectionAttempts == 5
\* The default of config.reconnection.maxAttempts (RECONNECTION_MAX_ATTEMPTS).
DefaultMaxAttempts == 5
\* The defaults of config.reconnection.baseDelayMs and backoffFactor.
DefaultBaseDelayMs == 5000
DefaultBackoffFactor == 2

SessionIds == {"s1", "s2"}

\* The session the pipeline and lifecycle specifications follow; the other
\* id is used where sessions are restored side by side.
Followed == {"s1"}
Chats == {"c1", "c2"}

\* A chunkTimers entry that is absent (deleted or never set).
NoTimer == -1
\* The synthetic GIVE_ME_SUMMARY_N8N message of sendStopListeningCommand.
CommandMessage == 0

\* The reasons a 'disconnected' event is followed with: one of
\* permanentDisconnections, one of temporaryDisconnections, one of neither.
Reasons == {"LOGOUT", "NAVIGATION", "UNKNOWN"}
\* What client.getState() is followed with; "throws" is a rejected call.
EngineStates == {"CONNECTED", "CONFLICT", "UNPAIRED", "OPENING", "throws"}

VARIABLES
  clients,      \* the keys of this.clients (Map sessionId -> session)
  session,      \* the session object registered under each key
  inflight,     \* webhookService.sendMessagesToN8N calls not yet settled
  pending,      \* per chat: handleMessage invocations suspended at an await
  stopProc,     \* per session: the stopListening invocation in progress
  emitted,      \* per chat: inbound messages the engine has emitted so far
  fails,        \* webhook sends that failed so far
  stops,        \* stopListening calls made so far
  enqueued,     \* history: per chat, how many inbound messages were pushed to the
                \* buffer; the k-th one pushed is the message k
  delivered,    \* history: per chat, the inbound messages of the successful sends,
                \* in the order delivered
  scen,         \* history: per chat, the run of enqueues since (empty, no timer)
  lastResult,   \* history: per session, what the last start/stop call returned
  engine,       \* per session: where the handle in session.client stands
  proc,         \* per session: the initializeClient / reconnectSession in progress
  reconnects,   \* per session: reconnection callbacks scheduled and not yet run
  cleaning,     \* per session: a cleanupSession is awaiting client.destroy()
  created,      \* session objects stored in the registry so far
  reconnection, \* config.reconnection, as read from the environment at start
  maxSessions,  \* config.maxSessions, as read from the environment at start
  security,     \* config.security, as read from the environment at start
  sweep,        \* cleanupExpiredSessions: where it stands and its report
  qrCodes,      \* the ids QRService holds a QR for
  fanout,       \* per id, the last of qr_ready and connected its room received
  asked,        \* the sessionId callers pass for the followed session when
                \* they name one, and history: what the last call with it
                \* came to
  scheduled,    \* history: per session, the reconnections scheduled since the
                \* session was created or last authenticated
  restorationPromises, \* this.restorationPromises: per id, the entry's promise
                \* (0 without an entry) and whether createdAt is more than
                \* maxWaitTime ago
  promises,     \* per id: the restoration promises created so far
  restorer,     \* restoreSessionsOnStart: where it stands and what it holds
  nodeEnv,      \* config.nodeEnv, as read from the environment at start
  waiter,       \* per id: the waitForSessionReady call, the promise it races
                \* (0 without a call) and how the race stands
  gone          \* history: per id, what the last clients.delete of the id
                \* left unreleased

\* The configuration: no handler writes it.
configVars == <<reconnection, maxSessions, security>>

vars == <<clients, session, inflight, pending, stopProc, emitted, fails, stops,
          enqueued, delivered, scen, lastResult, engine, proc, reconnects,
          cleaning, created, configVars, asked, sweep, fanout, qrCodes,
          scheduled, restorationPromises,
          promises, restorer, nodeEnv, waiter, gone>>

\* What only restoreSessionsOnStart and the process handlers touch.
restVars == <<restorer, nodeEnv, waiter>>

\* What the message pipeline leaves alone.
lifeVars == <<engine, proc, reconnects, cleaning, created, configVars, asked,
              sweep, fanout, qrCodes, scheduled,
              restorationPromises, promises, restVars, gone>>

\* ---------------------------------------------------------------- helpers
Min(a, b) == IF a < b THEN a ELSE b

\* The elements of a sequence.
Range(s) == {s[i] : i \in 1..Len(s)}

\* The sum of f over the set S.
RECURSIVE SumOver(_, _)
SumOver(f, S) ==
  IF S = {} THEN 0
  ELSE LET x == CHOOSE y \in S : TRUE IN f[x] + SumOver(f, S \ {x})

\* What the sweep makes of now - lastActivity and of now - createdAt: within
\* inactiveThreshold (0), beyond it (1), beyond expiredThreshold (2).
Ages == 0..2

\* The session object initializeClient stores for a new id, createdAt and
\* lastActivity being now.
NewSession ==
  [client |-> FALSE, isListening |-> FALSE, listeners |-> 0,
   messageBuffer |-> [c \in Chats |-> <<>>], bufKeys |-> <<>>,
   chunkTimers |-> [c \in Chats |-> NoTimer],
   reconnectionAttempts |-> 0, isConnected |-> FALSE,
   lastDisconnectionReason |-> "none",
   chatFilters |-> [c \in Chats |-> "unset"],
   idle |-> 0, age |-> 0]

\* No run of enqueues is being followed for a chat.
NoScen == [n |-> -1, fired |-> FALSE, elapsed |-> 0, sends |-> <<>>]

IdleStop == [pc |-> "idle", chats |-> <<>>, reported |-> FALSE]

\* No initializeClient or reconnectSession is in progress.
IdleFlow == [pc |-> "idle", next |-> "none", final |-> TRUE]

\* No entry in this.restorationPromises.
NoHandle == [p |-> 0, old |-> FALSE]

\* What a restoration promise carries before and after it settles; a
\* rejection carries its message as status.
NoValue == [sessionId |-> "none", status |-> "none", readyAt |-> FALSE]

\* new Promise(...): pending, with no handler attached.
NewPromise == [state |-> "pending", value |-> NoValue, handled |-> FALSE]

\* restoreSessionsOnStart has not run.
IdleRestorer ==
  [pc |-> "off", found |-> <<>>, todo |-> <<>>, cur |-> "none", waits |-> {},
   threw |-> {}, summary |-> FALSE, successful |-> {}, failed |-> {}, interval |-> FALSE]

\* Nothing of a session outlived its removal.
Released == [timers |-> {}, buffers |-> {}, handle |-> FALSE]

\* What is still there of a session as clients.delete runs: the chats with
\* a chunk timer armed, the chats with messages in the buffer, and whether
\* restorationPromises has an entry of the id.
Unreleased(sr, entry) ==
  [timers |-> {c \in Chats : sr.chunkTimers[c] # NoTimer},
   buffers |-> {c \in Chats : sr.messageBuffer[c] # <<>>},
   handle |-> entry.p # 0]

\* config.security with its defaults: STRICT_SESSION_ID_VALIDATION unset and
\* MAX_SESSION_ID_LENGTH unset.
DefaultSecurity ==
  [sessionIdValidation |-> TRUE, maxSessionIdLength |-> DefaultMaxIdLength]

\* No initializeClient call names its sessionId.
NoCall == [id |-> [type |-> "undefined", chars |-> <<>>], answer |-> "none"]

\* No cleanupExpiredSessions is running and none has run.
IdleSweep ==
  [pc |-> "idle", query |-> "absent", force |-> FALSE, start |-> {}, seen |-> {},
   cur |-> "none", expired |-> {}, inactive |-> {}, cleaned |-> {},
   errors |-> {}, failed |-> {}]

\* No waitForSessionReady call was made for the id.
NoWait == [p |-> 0, out |-> "none"]

Started ==
  /\ clients = {}
  /\ session = [s \in SessionIds |-> NewSession]
  /\ inflight = {}
  /\ pending = [s \in SessionIds |-> [c \in Chats |-> 0]]
  /\ stopProc = [s \in SessionIds |-> IdleStop]
  /\ emitted = [s \in SessionIds |-> [c \in Chats |-> 0]]
  /\ fails = 0
  /\ stops = 0
  /\ enqueued = [s \in SessionIds |-> [c \in Chats |-> 0]]
  /\ delivered = [s \in SessionIds |-> [c \in Chats |-> <<>>]]
  /\ scen = [s \in SessionIds |-> [c \in Chats |-> NoScen]]
  /\ lastResult = [s \in SessionIds |-> "none"]
  /\ engine = [s \in SessionIds |-> "none"]
  /\ proc = [s \in SessionIds |-> IdleFlow]
  /\ reconnects = [s \in SessionIds |-> <<>>]
  /\ cleaning = [s \in SessionIds |-> FALSE]
  /\ created = 0
  /\ scheduled = [s \in SessionIds |-> 0]
  /\ restorationPromises = [s \in SessionIds |-> NoHandle]
  /\ promises = [s \in SessionIds |-> <<>>]
  /\ waiter = [s \in SessionIds |-> NoWait]
  /\ gone = [s \in SessionIds |-> Released]
  /\ sweep = IdleSweep
  /\ fanout = [s \in SessionIds |-> "none"]
  /\ qrCodes = {}

\* The service starts with the default configuration.
Init ==
  /\ Started
  /\ reconnection = [maxAttempts |-> DefaultMaxAttempts]
  /\ maxSessions = DefaultMaxSessions
  /\ security = DefaultSecurity
  /\ asked = NoCall
  /\ restorer = IdleRestorer
  /\ nodeEnv = "development"

\* The service starts with RECONNECTION_MAX_ATTEMPTS unset or set.
InitConfigured ==
  /\ Started
  /\ reconnection \in [maxAttempts : {DefaultMaxAttempts, LowMaxAttempts}]
  /\ maxSessions = DefaultMaxSessions
  /\ security = DefaultSecurity
  /\ asked = NoCall
  /\ restorer = IdleRestorer
  /\ nodeEnv = "development"

\* Inbound messages emitted so far, over all sessions and chats.
EmittedTotal ==
  SumOver([s \in SessionIds |-> SumOver(emitted[s], Chats)], SessionIds)

\* ------------------------------------------------ the state one handler sees
\* The part of the state a handler working on session s reads and writes.
World(s) ==
  [sess |-> session[s], fl |-> inflight, sc |-> scen[s], enq |-> enqueued[s],
   proc |-> stopProc[s], res |-> lastResult[s]]

Commit(s, w) ==
  /\ session' = [session EXCEPT ![s] = w.sess]
  /\ inflight' = w.fl
  /\ scen' = [scen EXCEPT ![s] = w.sc]
  /\ enqueued' = [enqueued EXCEPT ![s] = w.enq]
  /\ stopProc' = [stopProc EXCEPT ![s] = w.proc]
  /\ lastResult' = [lastResult EXCEPT ![s] = w.res]

\* session.messageBuffer[chatId] = [] when the key is missing.
EnsureKey(sr, c) ==
  IF c \in Range(sr.bufKeys) THEN sr ELSE [sr EXCEPT !.bufKeys = Append(@, c)]

\* ------------------------------------------------------- sendMessageChunk
\* The chunk timer of a chat is cleared and its entry deleted.
ClearTimer(sr, c) == [sr EXCEPT !.chunkTimers[c] = NoTimer]

\* sendMessageChunk up to its await: the timer is cleared, and a non-empty
\* buffer is copied into the batch and replaced by an empty one.
sendMessageChunk(s, c, w, owner) ==
  LET cleared == ClearTimer(w.sess, c)
      batch == cleared.messageBuffer[c]
  IN IF batch = <<>>
     THEN [w EXCEPT !.sess = cleared]
     ELSE [w EXCEPT
             !.sess = [cleared EXCEPT !.messageBuffer[c] = <<>>],
             !.fl = @ \cup {[sid |-> s, chat |-> c, messages |-> batch,
                             owner |-> owner]},
             !.sc[c] = IF @.n >= 1 THEN [@ EXCEPT !.sends = Append(@, batch)]
                       ELSE @]

\* The catch branch of sendMessageChunk: the batch goes back into the buffer.
RequeueFailed(buf, messages) == buf \o messages

\* ------------------------------------------------------------ stopListening
\* stopListening after sendStopListeningCommand has returned.
Detached(sr) ==
  [sr EXCEPT !.listeners = 0,
             !.chunkTimers = [c \in Chats |-> NoTimer],
             !.messageBuffer = [c \in Chats |-> <<>>],
             !.bufKeys = <<>>,
             !.isListening = FALSE]

\* One turn of sendStopListeningCommand's loop, or, once the loop is over,
\* the rest of stopListening.
StopStep(s, w) ==
  IF w.proc.chats = <<>>
  THEN IF ~w.sess.isListening
       THEN [w EXCEPT !.proc.pc = "done", !.res = "not_listening"]
       ELSE IF ~w.sess.client
       THEN [w EXCEPT !.proc.pc = "done", !.res = "error"]
       ELSE [w EXCEPT !.sess = Detached(@),
                      !.sc = [c \in Chats |-> NoScen],
                      !.proc.pc = "done", !.res = "listening_stopped"]
  ELSE LET c == Head(w.proc.chats)
           keyed == EnsureKey(w.sess, c)
           pushed == [keyed EXCEPT !.messageBuffer[c] = Append(@, CommandMessage)]
           w1 == [w EXCEPT !.sess = pushed,
                           !.sc[c] = NoScen,
                           !.proc.chats = Tail(@)]
       IN sendMessageChunk(s, c, w1, "stop")

\* A caller (SessionController.stopListening) invokes stopListening and answers
\* without awaiting it; stopListening runs to its first await.
StopListeningCall(s) ==
  /\ s \in clients
  /\ stopProc[s].pc # "flushing"
  /\ stops < MaxStops
  /\ LET w == World(s)
         chats == IF w.sess.client THEN w.sess.bufKeys ELSE <<>>
         w0 == [w EXCEPT !.proc = [pc |-> "flushing", chats |-> chats,
                                   reported |-> TRUE]]
     IN Commit(s, StopStep(s, w0))
  /\ stops' = stops + 1
  /\ UNCHANGED <<clients, pending, emitted, fails, delivered, lifeVars>>

\* ----------------------------------------------------------- startListening
\* A startListening that attaches one more listener whatever the session's
\* state.
StartWiringAlways(sr) ==
  [sr EXCEPT !.listeners = @ + 1, !.isListening = TRUE]

\* startListening: nothing when already listening; otherwise the message
\* listeners are removed and one is attached.
StartWiring(sr) ==
  IF sr.isListening THEN sr
  ELSE [sr EXCEPT !.listeners = 1, !.isListening = TRUE]

StartListening(s) ==
  /\ s \in clients
  /\ session[s].isListening \/ session[s].client
  /\ session' = [session EXCEPT ![s] = StartWiring(@)]
  /\ lastResult' = [lastResult EXCEPT ![s] =
       IF session[s].isListening THEN "already_listening" ELSE "listening_started"]
  /\ UNCHANGED <<clients, inflight, pending, stopProc, emitted, fails, stops,
                 enqueued, delivered, scen, lifeVars>>

\* ------------------------------------------------------------ handleMessage
\* The engine emits a message: every attached listener runs handleMessage up
\* to its first await (contact or group enrichment), unless the session is
\* not listening or chatFilters has false for the chat.
MessageEvent(s, c, max) ==
  /\ s \in clients
  /\ session[s].client
  /\ session[s].listeners > 0
  /\ EmittedTotal < max
  /\ pending' = IF session[s].isListening /\ session[s].chatFilters[c] # "off"
                THEN [pending EXCEPT ![s][c] = @ + session[s].listeners]
                ELSE pending
  /\ emitted' = [emitted EXCEPT ![s][c] = @ + 1]
  /\ UNCHANGED <<clients, session, inflight, stopProc, fails, stops, enqueued,
                 delivered, scen, lastResult, lifeVars>>

\* A size test that flushes only above the chunk size.
ReachedChunkSizeAbove(buf) == Len(buf) > messageChunkSize

\* The size test of handleMessage.
ReachedChunkSize(buf) == Len(buf) >= messageChunkSize

\* A delay of half the interval.
ChunkTimerDelayHalved == chunkSendIntervalMs \div 2

\* The delay handleMessage gives setTimeout.
ChunkTimerDelay == chunkSendIntervalMs

\* The run of enqueues a chat is in after one more push.
ScenPushed(sr, sc, c) ==
  IF sr.messageBuffer[c] = <<>> /\ sr.chunkTimers[c] = NoTimer
  THEN [n |-> 1, fired |-> FALSE, elapsed |-> 0, sends |-> <<>>]
  ELSE IF sc.n >= 1 /\ sc.n < messageChunkSize /\ ~sc.fired
  THEN [sc EXCEPT !.n = @ + 1]
  ELSE NoScen

\* handleMessage from the push to its end.
HandleMessageAppend(s, c) ==
  /\ pending[s][c] > 0
  /\ s \in clients
  /\ LET w == World(s)
         msg == w.enq[c] + 1
         keyed == EnsureKey(w.sess, c)
         pushed == [keyed EXCEPT !.messageBuffer[c] = Append(@, msg)]
         w1 == [w EXCEPT !.sess = pushed,
                         !.enq[c] = msg,
                         !.sc[c] = ScenPushed(w.sess, @, c)]
     IN IF ReachedChunkSize(pushed.messageBuffer[c])
        THEN Commit(s, sendMessageChunk(s, c, w1, "flush"))
        ELSE IF pushed.chunkTimers[c] = NoTimer
        THEN Commit(s, [w1 EXCEPT !.sess.chunkTimers[c] = ChunkTimerDelay])
        ELSE Commit(s, w1)
  /\ pending' = [pending EXCEPT ![s][c] = @ - 1]
  /\ UNCHANGED <<clients, emitted, fails, stops, delivered, lifeVars>>

\* ------------------------------------------------------------------ timers
\* A chunk timer comes due: its callback runs sendMessageChunk.
TimerFire(s, c) ==
  /\ s \in clients
  /\ session[s].chunkTimers[c] = 0
  /\ LET w == World(s)
         w1 == [w EXCEPT !.sc[c] = IF @.n >= 1 THEN [@ EXCEPT !.fired = TRUE] ELSE @]
     IN Commit(s, sendMessageChunk(s, c, w1, "flush"))
  /\ UNCHANGED <<clients, pending, emitted, fails, stops, delivered, lifeVars>>

\* The armed timers that are not yet due.
Running == {t \in {session[s].chunkTimers[c] : s \in clients, c \in Chats} : t > 0}

\* The clock advances to the next due time, by TickMs at most.
Advance == CHOOSE d \in Running \cup {TickMs} : \A e \in Running \cup {TickMs} : d <= e

TimerAfter(t) == IF t = NoTimer THEN NoTimer ELSE IF t > Advance THEN t - Advance ELSE 0

\* Time passes: every armed timer gets closer to its due time.
Tick ==
  /\ Running # {}
  /\ session' = [s \in SessionIds |->
       [session[s] EXCEPT !.chunkTimers = [c \in Chats |-> TimerAfter(@[c])]]]
  /\ scen' = [s \in SessionIds |-> [c \in Chats |->
       IF scen[s][c].n >= 1 /\ ~scen[s][c].fired
       THEN [scen[s][c] EXCEPT !.elapsed = Min(@ + Advance, chunkSendIntervalMs)]
       ELSE scen[s][c]]]
  /\ UNCHANGED <<clients, inflight, pending, stopProc, emitted, fails, stops,
                 enqueued, delivered, lastResult, lifeVars>>

\* ------------------------------------------------------- webhook outcomes
\* sendMessagesToN8N returns true: the batch is delivered. A batch sent by
\* sendStopListeningCommand resumes its loop.
SendSuccess(f) ==
  /\ f \in inflight
  /\ LET s == f.sid
         w == [World(s) EXCEPT !.fl = @ \ {f}]
     IN Commit(s, IF f.owner = "stop" THEN StopStep(s, w) ELSE w)
  /\ delivered' = [delivered EXCEPT ![f.sid][f.chat] =
       @ \o SelectSeq(f.messages, LAMBDA m : m # CommandMessage)]
  /\ UNCHANGED <<clients, pending, emitted, fails, stops, lifeVars>>

\* sendMessagesToN8N throws: the catch branch puts the batch back.
SendFail(f) ==
  /\ f \in inflight
  /\ fails < MaxFails
  /\ LET s == f.sid
         c == f.chat
         w == World(s)
         keyed == EnsureKey(w.sess, c)
         back == [keyed EXCEPT !.messageBuffer[c] = RequeueFailed(@, f.messages)]
         w1 == [w EXCEPT !.fl = @ \ {f}, !.sess = back, !.sc[c] = NoScen]
     IN Commit(s, IF f.owner = "stop" THEN StopStep(s, w1) ELSE w1)
  /\ fails' = fails + 1
  /\ UNCHANGED <<clients, pending, emitted, stops, delivered, lifeVars>>

\* ------------------------------------------------- lifecycle of a session
\* The part of the state initializeClient, reconnectSession, destroyClient
\* and cleanupSession read and write for the id s.
LWorld(s) ==
  [reg |-> clients, sess |-> session[s], eng |-> engine[s], flow |-> proc[s],
   made |-> created, cleaning |-> cleaning[s],
   entry |-> restorationPromises[s], proms |-> promises[s]]

\* The entry of the id, if any, is settled and deleted.
Settle(lw, state, value) ==
  IF lw.entry.p = 0 THEN lw
  ELSE [lw EXCEPT !.proms[lw.entry.p].state = state,
                  !.proms[lw.entry.p].value = value,
                  !.entry = NoHandle]

\* restorationPromises[sessionId].reject(new Error(why)) and the delete.
RejectHandle(lw, why) == Settle(lw, "rejected", [NoValue EXCEPT !.status = why])

\* What a handler did to the entry of the id s and to its promise.
CommitHandle(s, lw) ==
  /\ restorationPromises' = [restorationPromises EXCEPT ![s] = lw.entry]
  /\ promises' = [promises EXCEPT ![s] = lw.proms]

\* A handler on the id s ends: w is what it did to the pipeline, lw what it
\* did to the registry and the handle. A session leaves the registry here
\* only once none of its handleMessage, send and stopListening invocations
\* is suspended; its histories end with it.
CommitAll(s, w, lw) ==
  LET removed == s \in clients /\ s \notin lw.reg
  IN /\ lw.made <= MaxCreates
     /\ removed =>
          /\ \A c \in Chats : pending[s][c] = 0
          /\ ~\E f \in w.fl : f.sid = s
          /\ w.proc.pc # "flushing"
     /\ clients' = lw.reg
     /\ session' = [session EXCEPT ![s] = lw.sess]
     /\ engine' = [engine EXCEPT ![s] = lw.eng]
     /\ proc' = [proc EXCEPT ![s] = lw.flow]
     /\ created' = lw.made
     /\ cleaning' = [cleaning EXCEPT ![s] = lw.cleaning]
     /\ restorationPromises' = [restorationPromises EXCEPT ![s] = lw.entry]
     /\ promises' = [promises EXCEPT ![s] = lw.proms]
     /\ inflight' = w.fl
     /\ scen' = [scen EXCEPT ![s] = [c \in Chats |->
          IF removed \/ lw.sess.chunkTimers[c] # w.sess.chunkTimers[c]
          THEN NoScen ELSE w.sc[c]]]
     /\ enqueued' = [enqueued EXCEPT ![s] =
          IF removed THEN [c \in Chats |-> 0] ELSE w.enq]
     /\ delivered' = [delivered EXCEPT ![s] =
          IF removed THEN [c \in Chats |-> <<>>] ELSE @]
     /\ stopProc' = [stopProc EXCEPT ![s] = IF removed THEN IdleStop ELSE w.proc]
     /\ lastResult' = [lastResult EXCEPT ![s] = IF removed THEN "none" ELSE w.res]
     /\ scheduled' = [scheduled EXCEPT ![s] = IF removed THEN 0 ELSE @]
     /\ gone' = [gone EXCEPT ![s] =
          IF removed THEN Unreleased(w.sess, lw.entry) ELSE @]

\* new Client(...), session.client = client, the handlers registered, and
\* client.initialize() awaited.
BindClient(lw) ==
  [lw EXCEPT !.sess.client = TRUE, !.sess.listeners = 0, !.sess.idle = 0,
             !.eng = "starting", !.flow.pc = "initialize"]

\* initializeClient from its start, for an id that passed
\* validateSessionCreation: an existing session with a client is asked for
\* its state; otherwise a client is created, for a new session object when
\* the id is not in the registry.
InitTop(s, lw) ==
  IF s \in lw.reg
  THEN IF lw.sess.client THEN [lw EXCEPT !.flow.pc = "getStateInit"]
       ELSE BindClient(lw)
  ELSE BindClient([lw EXCEPT !.reg = @ \cup {s}, !.sess = NewSession,
                             !.made = @ + 1])

\* destroyClient up to its await: the message listeners are removed when
\* listening and the chunk timers are cleared; the buffers are left alone.
DestroySync(sr) ==
  [sr EXCEPT !.listeners = IF sr.isListening THEN 0 ELSE @,
             !.isListening = FALSE,
             !.chunkTimers = [c \in Chats |-> NoTimer]]

\* A destroyClient that resets the counter instead of counting.
DestroyedAttemptsReset(n) == 0

\* reconnectionAttempts after destroyClient's client.destroy() resolved.
DestroyedAttempts(n) == n + 1

\* What the caller of destroyClient does once it returned: "bind" is
\* initializeClient going on to create the client (which throws when the
\* session left the registry meanwhile), "init" is reconnectSession calling
\* initializeClient.
AfterDestroy(s, lw) ==
  IF lw.flow.next = "init" THEN InitTop(s, lw)
  ELSE IF s \in lw.reg THEN BindClient(lw)
  ELSE IF lw.flow.final THEN [lw EXCEPT !.flow = IdleFlow]
  ELSE InitTop(s, [lw EXCEPT !.flow.final = TRUE])

\* destroyClient is called: it returns at once without a session or a
\* client, and otherwise suspends at client.destroy().
DestroyClientCall(s, lw, next) ==
  LET lw1 == [lw EXCEPT !.flow.next = next]
  IN IF s \in lw.reg /\ lw.sess.client
     THEN [RejectHandle(lw1, "Client destroyed") EXCEPT
             !.sess = DestroySync(@), !.eng = "destroyed", !.flow.pc = "destroy"]
     ELSE AfterDestroy(s, lw1)

\* cleanupSession's call of stopListening, which it does not await.
CleanupStop(s, w) ==
  IF w.sess.isListening
  THEN StopStep(s, [w EXCEPT !.proc =
         [pc |-> "flushing",
          chats |-> IF w.sess.client THEN w.sess.bufKeys ELSE <<>>,
          reported |-> FALSE]])
  ELSE w

\* A cleanupSession that rejects the entry and leaves the session alone.
CleanupRestSkipped(s, lw) == RejectHandle(lw, "Session cleanup requested")

\* cleanupSession around that call: the entry of the id is rejected; with
\* a client it suspends at client.destroy(), without one it deletes the id
\* at once.
CleanupRest(s, lw) ==
  LET lw1 == RejectHandle(lw, "Session cleanup requested")
  IN IF lw.sess.client
     THEN [lw1 EXCEPT !.eng = "destroyed", !.cleaning = TRUE]
     ELSE [lw1 EXCEPT !.reg = @ \ {s}, !.sess = NewSession, !.eng = "none",
                      !.cleaning = FALSE]

\* SessionController.initializeSession: initializeClient(sessionId).
InitializeClient(s) ==
  /\ proc[s].pc = "idle"
  /\ Cardinality(clients) < maxSessions
  /\ CommitAll(s, World(s), InitTop(s, [LWorld(s) EXCEPT !.flow = IdleFlow]))
  /\ UNCHANGED <<pending, emitted, fails, stops, reconnects, configVars, asked, sweep,
                 fanout, qrCodes, restVars>>

\* initializeClient for an id that is not in the registry.
CreateSession(s) == s \notin clients /\ InitializeClient(s)

\* client.initialize() resolved: initializeClient returns 'initialized'.
InitializeDone(s) ==
  /\ proc[s].pc = "initialize"
  /\ restorer.cur # s
  /\ proc' = [proc EXCEPT ![s] = IdleFlow]
  /\ UNCHANGED <<clients, session, inflight, pending, stopProc, emitted, fails,
                 stops, enqueued, delivered, scen, lastResult, engine,
                 reconnects, cleaning, created, configVars, asked, sweep, fanout,
                 qrCodes, scheduled,
                 restorationPromises, promises, restVars, gone>>

\* initializeClient's catch branch: the entry of the id is rejected,
\* cleanupSession is called and not awaited, and the error is thrown;
\* inside reconnectSession's try the catch branch calls destroyClient and
\* initializeClient again.
InitializeCatch(s) ==
  /\ proc[s].pc = "initialize"
  /\ ~cleaning[s]
  /\ session[s].isListening => stopProc[s].pc # "flushing"
  /\ LET exists == s \in clients
         w == IF exists THEN CleanupStop(s, World(s)) ELSE World(s)
         lw0 == [RejectHandle(LWorld(s), "init error") EXCEPT !.sess = w.sess]
         lw1 == IF exists THEN CleanupRest(s, lw0) ELSE lw0
         lw2 == IF lw1.flow.final THEN [lw1 EXCEPT !.flow = IdleFlow]
                ELSE DestroyClientCall(s, [lw1 EXCEPT !.flow.final = TRUE], "init")
     IN CommitAll(s, w, lw2)
  /\ UNCHANGED <<pending, emitted, fails, stops, reconnects, configVars, asked, sweep,
                 fanout, qrCodes, nodeEnv, waiter>>

\* client.initialize() rejected or timed out in a call that
\* restoreSessionsOnStart is not waiting for.
InitializeFail(s) ==
  /\ restorer.cur # s
  /\ InitializeCatch(s)
  /\ UNCHANGED <<restorer, waiter>>

\* SessionController.cleanupSession: cleanupSession(sessionId).
CleanupCall(s) ==
  /\ s \in clients
  /\ ~cleaning[s]
  /\ session[s].isListening => stopProc[s].pc # "flushing"
  /\ LET w == CleanupStop(s, World(s))
     IN CommitAll(s, w, CleanupRest(s, [LWorld(s) EXCEPT !.sess = w.sess]))
  /\ UNCHANGED <<pending, emitted, fails, stops, reconnects, configVars, asked, sweep,
                 fanout, qrCodes, restVars>>

\* cleanupSession's client.destroy() settled: the finally branch deletes the
\* id from the registry.
CleanupEnd(s) ==
  /\ cleaning[s]
  /\ CommitAll(s, World(s),
       [LWorld(s) EXCEPT !.reg = @ \ {s}, !.sess = NewSession, !.eng = "none",
                         !.cleaning = FALSE])
  /\ UNCHANGED <<pending, emitted, fails, stops, reconnects, configVars, asked, sweep,
                 fanout, qrCodes, restVars>>

\* ---------------------------------------------------------- reconnectSession
\* A reconnectSession that initializes a client for an id without a
\* session.
ReconnectStartCreates(s, lw) ==
  IF s \in lw.reg /\ lw.sess.client
  THEN [lw EXCEPT !.flow = [pc |-> "getState", next |-> "none", final |-> FALSE]]
  ELSE InitTop(s, [lw EXCEPT !.flow = [pc |-> "idle", next |-> "none",
                                       final |-> FALSE]])

\* reconnectSession up to its first await: it throws without a session, asks
\* a client for its state, and without a client calls initializeClient.
ReconnectStart(s, lw) ==
  IF s \notin lw.reg THEN lw
  ELSE IF lw.sess.client
  THEN [lw EXCEPT !.flow = [pc |-> "getState", next |-> "none", final |-> FALSE],
                  !.sess.idle = 0]
  ELSE InitTop(s, [lw EXCEPT !.flow = [pc |-> "idle", next |-> "none",
                                       final |-> FALSE],
                             !.sess.idle = 0])

\* A callback scheduled by handleAutomaticReconnection runs.
ReconnectFire(s) ==
  /\ reconnects[s] # <<>>
  /\ proc[s].pc = "idle"
  /\ \E i \in 1..Len(reconnects[s]) :
       reconnects' = [reconnects EXCEPT ![s] =
         SubSeq(@, 1, i - 1) \o SubSeq(@, i + 1, Len(@))]
  /\ CommitAll(s, World(s), ReconnectStart(s, LWorld(s)))
  /\ UNCHANGED <<pending, emitted, fails, stops, configVars, asked, sweep, fanout,
                 qrCodes, restVars>>

\* SessionController.reconnectSession: a session that exists and is not
\* connected is reconnected.
ReconnectCall(s) ==
  /\ s \in clients
  /\ ~session[s].isConnected
  /\ proc[s].pc = "idle"
  /\ CommitAll(s, World(s), ReconnectStart(s, LWorld(s)))
  /\ UNCHANGED <<pending, emitted, fails, stops, reconnects, configVars, asked, sweep,
                 fanout, qrCodes, restVars>>

\* What getState() can answer for a handle.
CanAnswer(e, st) ==
  /\ st = "CONNECTED" => e \in {"authenticated", "ready"}
  /\ e \in {"destroyed", "none"} => st = "throws"

\* reconnectSession's getState() settled.
GetStateDone(s, st) ==
  /\ proc[s].pc = "getState"
  /\ CanAnswer(engine[s], st)
  /\ LET lw == LWorld(s)
     IN CommitAll(s, World(s),
          CASE st \in {"CONNECTED", "UNPAIRED"} -> [lw EXCEPT !.flow = IdleFlow]
            [] st = "CONFLICT" -> DestroyClientCall(s, lw, "init")
            [] st = "OPENING" -> InitTop(s, lw)
            [] st = "throws" ->
                 DestroyClientCall(s, [lw EXCEPT !.flow.final = TRUE], "init"))
  /\ UNCHANGED <<pending, emitted, fails, stops, reconnects, configVars, asked, sweep,
                 fanout, qrCodes, restVars>>

\* initializeClient's getState() on the existing client settled: a connected
\* session is left as it is, any other is destroyed and bound again.
GetStateInitDone(s, st) ==
  /\ proc[s].pc = "getStateInit"
  /\ CanAnswer(engine[s], st)
  /\ LET lw == LWorld(s)
     IN CommitAll(s, World(s),
          IF st = "CONNECTED" THEN [lw EXCEPT !.flow = IdleFlow, !.sess.idle = 0]
          ELSE DestroyClientCall(s, lw, "bind"))
  /\ UNCHANGED <<pending, emitted, fails, stops, reconnects, configVars, asked, sweep,
                 fanout, qrCodes, restVars>>

\* destroyClient's client.destroy() settled: when it resolved, the session
\* object loses its client and its counter moves; when it rejected, the
\* catch branch only logs. Then the caller goes on.
DestroyDone(s, ok) ==
  /\ proc[s].pc = "destroy"
  /\ LET lw == LWorld(s)
         hit == ok /\ s \in clients
     IN /\ hit => lw.sess.reconnectionAttempts < MaxAttempts
        /\ CommitAll(s, World(s),
             AfterDestroy(s,
               IF hit
               THEN [lw EXCEPT !.sess.client = FALSE,
                               !.sess.isConnected = FALSE,
                               !.sess.idle = 0,
                               !.sess.reconnectionAttempts = DestroyedAttempts(@)]
               ELSE lw))
  /\ UNCHANGED <<pending, emitted, fails, stops, reconnects, configVars, asked, sweep,
                 fanout, qrCodes, restVars>>

\* ------------------------------------------------------------ engine events
\* The handle of s can still emit events.
Alive(s) == s \in clients /\ session[s].client

\* 'authenticated': the counter is reset.
EngineAuthenticated(s) ==
  /\ Alive(s)
  /\ engine[s] = "starting"
  /\ engine' = [engine EXCEPT ![s] = "authenticated"]
  /\ session' = [session EXCEPT ![s].reconnectionAttempts = 0,
                                ![s].idle = 0]
  /\ scheduled' = [scheduled EXCEPT ![s] = 0]
  /\ UNCHANGED <<clients, inflight, pending, stopProc, emitted, fails, stops,
                 enqueued, delivered, scen, lastResult, proc, reconnects,
                 cleaning, created, configVars, asked, sweep, fanout, qrCodes,
                 restorationPromises,
                 promises, restVars, gone>>

\* A result that does not name the session.
ReadyValueAnonymous(s) == [sessionId |-> "none", status |-> "ready", readyAt |-> TRUE]

\* What the 'ready' handler resolves the restoration promise with.
ReadyValue(s) == [sessionId |-> s, status |-> "ready", readyAt |-> TRUE]

\* SocketService.markSessionConnected, and emitQRForSession when saveQR of
\* QRService wrote the QR file: the room of the id receives the status. A
\* failed write is caught in saveQR before it emits.
markSessionConnected(last) == "connected"

emitQRForSession(last) == "qr_ready"

saveQR(last, wrote) == IF wrote THEN emitQRForSession(last) ELSE last

\* getSessionInfo(sessionId), the fields followed.
getSessionInfo(s) ==
  IF s \notin clients
  THEN [exists |-> FALSE, isListening |-> FALSE, isConnected |-> FALSE]
  ELSE [exists |-> TRUE, isListening |-> session[s].isListening,
        isConnected |-> session[s].isConnected]

\* 'qr': the engine asks for a scan before it is authenticated. The handler
\* notes the activity and saves the QR, which QRService keeps in memory
\* before it writes the file.
EngineQr(s, wrote) ==
  /\ Alive(s)
  /\ engine[s] = "starting"
  /\ session' = [session EXCEPT ![s].idle = 0]
  /\ qrCodes' = qrCodes \cup {s}
  /\ fanout' = [fanout EXCEPT ![s] = saveQR(@, wrote)]
  /\ UNCHANGED <<clients, inflight, pending, stopProc, emitted, fails, stops,
                 enqueued, delivered, scen, lastResult, engine, proc,
                 reconnects, cleaning, created, configVars, asked, sweep,
                 scheduled, restorationPromises, promises, restVars, gone>>

\* 'ready': the session is connected, the counter is reset, QRService
\* drops the QR of the id, its room receives connected and the entry of the
\* id, if any, is resolved and deleted.
EngineReady(s) ==
  /\ Alive(s)
  /\ engine[s] = "authenticated"
  /\ engine' = [engine EXCEPT ![s] = "ready"]
  /\ session' = [session EXCEPT ![s].isConnected = TRUE,
                                ![s].reconnectionAttempts = 0,
                                ![s].idle = 0]
  /\ scheduled' = [scheduled EXCEPT ![s] = 0]
  /\ qrCodes' = qrCodes \ {s}
  /\ fanout' = [fanout EXCEPT ![s] = markSessionConnected(@)]
  /\ CommitHandle(s, Settle(LWorld(s), "resolved", ReadyValue(s)))
  /\ UNCHANGED <<clients, inflight, pending, stopProc, emitted, fails, stops,
                 enqueued, delivered, scen, lastResult, proc, reconnects,
                 cleaning, created, configVars, asked, sweep, restVars, gone>>

\* 'auth_failure': the counter moves and the entry of the id, if any, is
\* rejected and deleted.
EngineAuthFailure(s) ==
  /\ Alive(s)
  /\ engine[s] = "starting"
  /\ session[s].reconnectionAttempts < MaxAttempts
  /\ engine' = [engine EXCEPT ![s] = "failed"]
  /\ session' = [session EXCEPT ![s].reconnectionAttempts = @ + 1]
  /\ CommitHandle(s, RejectHandle(LWorld(s), "Auth failure"))
  /\ UNCHANGED <<clients, inflight, pending, stopProc, emitted, fails, stops,
                 enqueued, delivered, scen, lastResult, proc, reconnects,
                 cleaning, created, configVars, asked, sweep, fanout, qrCodes, scheduled,
                 restVars, gone>>

IsPermanent(r) == r \in {"LOGOUT", "BANNED", "DEPRECATED_VERSION", "USER_LOGOUT"}

IsTemporary(r) ==
  r \in {"NAVIGATION", "CONFLICT_RESTART", "CONNECTION_MAIN_SYNC_NOT_CONNECTED",
         "Lost connection with WhatsApp"}

\* The scheduled callbacks of a session with one more, of delay d. They are
\* told apart by their delay only, so they are kept in ascending order.
Schedule(seq, d) ==
  LET k == Cardinality({i \in 1..Len(seq) : seq[i] <= d})
  IN SubSeq(seq, 1, k) \o <<d>> \o SubSeq(seq, k + 1, Len(seq))

\* The delay handleAutomaticReconnection gives setTimeout.
ReconnectDelay(attempts) == Min(5000 * attempts, 30000)

\* handleAutomaticReconnection: the counter moves, and a reconnection is
\* scheduled for a temporary reason below the ceiling.
handleAutomaticReconnection(sr, r) ==
  LET counted == [sr EXCEPT !.reconnectionAttempts = @ + 1,
                            !.lastDisconnectionReason = r]
  IN [sess |-> counted,
      schedule |-> /\ ~IsPermanent(r)
                   /\ counted.reconnectionAttempts <= maxReconnectionAttempts
                   /\ IsTemporary(r),
      delay |-> ReconnectDelay(counted.reconnectionAttempts)]

\* 'disconnected': the session is marked disconnected, the entry of the
\* id, if any, is rejected and deleted, and handleAutomaticReconnection
\* runs. A handle can report it at any time, and again after it did.
EngineDisconnected(s, r) ==
  /\ Alive(s)
  /\ engine[s] \in {"starting", "authenticated", "ready", "disconnected"}
  /\ session[s].reconnectionAttempts < MaxAttempts
  /\ Len(reconnects[s]) < MaxReconnects
  /\ LET marked == [session[s] EXCEPT !.isConnected = FALSE,
                                      !.lastDisconnectionReason = r,
                                      !.idle = 0]
         auto == handleAutomaticReconnection(marked, r)
     IN /\ session' = [session EXCEPT ![s] = auto.sess]
        /\ reconnects' = [reconnects EXCEPT ![s] =
             IF auto.schedule THEN Schedule(@, auto.delay) ELSE @]
        /\ scheduled' = [scheduled EXCEPT ![s] =
             IF auto.schedule THEN @ + 1 ELSE @]
  /\ engine' = [engine EXCEPT ![s] = "disconnected"]
  /\ CommitHandle(s, RejectHandle(LWorld(s), "Disconnected during restoration"))
  /\ UNCHANGED <<clients, inflight, pending, stopProc, emitted, fails, stops,
                 enqueued, delivered, scen, lastResult, proc, cleaning, created,
                 configVars, asked, sweep, fanout, qrCodes, restVars, gone>>

\* ------------------------------------------------- restoration at start
\* The folders the sessions directory can hold for an id: LocalAuth's
\* "session-<id>" and a folder that carries the bare id.
Folders == [prefixed : BOOLEAN, name : SessionIds]

\* entry.name.replace(/^session-/, '')
SessionIdOf(folder) == folder.name

\* The folders in the order readdirSync lists them.
FolderOrder ==
  <<[prefixed |-> FALSE, name |-> "s1"], [prefixed |-> FALSE, name |-> "s2"],
    [prefixed |-> TRUE, name |-> "s1"], [prefixed |-> TRUE, name |-> "s2"]>>

\* The folders of a set, in that order.
Listing(S) == SelectSeq(FolderOrder, LAMBDA f : f \in S)

\* The listings of at most MaxFolders folders restoreSessionsOnStart can
\* find, LocalAuth's folder of the first id among them.
Listings ==
  {Listing(S) : S \in {F \in SUBSET Folders :
     /\ [prefixed |-> TRUE, name |-> "s1"] \in F
     /\ Cardinality(F) <= MaxFolders}}

\* The process is gone: in development the unhandledRejection handler of
\* server.js exits on a promise rejected with no handler attached.
Exited ==
  /\ nodeEnv = "development"
  /\ \E s \in SessionIds : \E i \in 1..Len(promises[s]) :
       promises[s][i].state = "rejected" /\ ~promises[s][i].handled

\* A macrotask can run: the process lives and restoreSessionsOnStart is
\* not between two iterations of its loop.
Serving == ~Exited /\ restorer.pc # "loop"

\* The service starts and restoreSessionsOnStart finds a listing.
InitRestore ==
  /\ Started
  /\ reconnection = [maxAttempts |-> DefaultMaxAttempts]
  /\ maxSessions = DefaultMaxSessions
  /\ security = DefaultSecurity
  /\ asked = NoCall
  /\ nodeEnv \in {"development", "production"}
  /\ restorer \in {[IdleRestorer EXCEPT !.pc = "loop", !.found = l, !.todo = l] :
                    l \in Listings}

\* isRestoring(sessionId)
isRestoring(s) == restorationPromises[s].p # 0

\* The entry of the id is created, over the entry there may be.
NewHandle(lw) ==
  [lw EXCEPT !.proms = Append(@, NewPromise),
             !.entry = [p |-> Len(lw.proms) + 1, old |-> FALSE]]

\* An initializeClient that creates no entry for an id it binds a client for.
RestoreTopUnhandled(s, lw) ==
  IF s \in lw.reg THEN NewHandle(lw)
  ELSE BindClient([lw EXCEPT !.reg = @ \cup {s}, !.sess = NewSession,
                             !.made = @ + 1, !.flow = IdleFlow])

\* initializeClient(sessionId, {fromDisk: true}) for an id that passed
\* validateSessionCreation: the entry is created, then an id that is in the
\* registry returns 'restored_from_disk' and any other gets its session
\* object and its client.
RestoreTop(s, lw) ==
  IF s \in lw.reg THEN NewHandle(lw)
  ELSE BindClient([NewHandle(lw) EXCEPT !.reg = @ \cup {s}, !.sess = NewSession,
                                        !.made = @ + 1, !.flow = IdleFlow])

\* The service but for restoreSessionsOnStart and the configuration.
serviceVars ==
  <<clients, session, inflight, pending, stopProc, emitted, fails, stops,
    enqueued, delivered, scen, lastResult, engine, proc, reconnects, cleaning,
    created, scheduled, restorationPromises, promises>>

\* restoreSessionsOnStart at the top of its loop. With a folder left, it
\* calls initializeClient for the folder's id: a call that throws is kept as
\* a failure, a call that returns at once has its promise collected, and a
\* call that binds a client is awaited. Without one, it awaits the promises
\* it collected, or sets the interval at once when it collected none.
RestoreNext ==
  /\ restorer.pc = "loop"
  /\ ~Exited
  /\ IF restorer.todo = <<>>
     THEN /\ restorer' =
               IF restorer.waits = {} /\ restorer.threw = {}
               THEN [restorer EXCEPT !.pc = "done", !.interval = TRUE]
               ELSE [restorer EXCEPT !.pc = "waiting"]
          /\ UNCHANGED <<serviceVars, configVars, asked, sweep, fanout, qrCodes, nodeEnv,
                         waiter, gone>>
     ELSE LET s == SessionIdOf(Head(restorer.todo))
              rest == Tail(restorer.todo)
              lw == RestoreTop(s, LWorld(s))
          IN IF Cardinality(clients) >= maxSessions
             THEN /\ restorer' = [restorer EXCEPT !.todo = rest,
                                                   !.threw = @ \cup {s}]
                  /\ UNCHANGED <<serviceVars, configVars, asked, sweep, fanout, qrCodes,
                                 nodeEnv,
                                 waiter, gone>>
             ELSE /\ s \in clients \/ proc[s].pc = "idle"
                  /\ IF s \in clients
                     THEN /\ CommitAll(s, World(s),
                               [lw EXCEPT !.proms[lw.entry.p].handled = TRUE])
                          /\ restorer' = [restorer EXCEPT !.todo = rest,
                               !.waits = @ \cup {<<s, lw.entry.p>>}]
                     ELSE /\ CommitAll(s, World(s), lw)
                          /\ restorer' = [restorer EXCEPT !.todo = rest,
                               !.pc = "await", !.cur = s]
                  /\ UNCHANGED <<pending, emitted, fails, stops, reconnects,
                                 configVars, asked, sweep, fanout, qrCodes, nodeEnv, waiter>>

\* The initializeClient restoreSessionsOnStart awaits returned: the promise
\* getRestorationPromise gives, if any, is collected with its handlers.
RestoreInitialized(s) ==
  /\ Serving
  /\ restorer.pc = "await" /\ restorer.cur = s
  /\ proc[s].pc = "initialize"
  /\ proc' = [proc EXCEPT ![s] = IdleFlow]
  /\ LET p == restorationPromises[s].p
     IN /\ promises' = IF p = 0 THEN promises
                        ELSE [promises EXCEPT ![s][p].handled = TRUE]
        /\ restorer' = [restorer EXCEPT !.pc = "loop", !.cur = "none",
             !.waits = IF p = 0 THEN @ ELSE @ \cup {<<s, p>>}]
  /\ UNCHANGED <<clients, session, inflight, pending, stopProc, emitted, fails,
                 stops, enqueued, delivered, scen, lastResult, engine,
                 reconnects, cleaning, created, configVars, asked, sweep, fanout,
                 qrCodes, scheduled,
                 restorationPromises, nodeEnv, waiter, gone>>

\* The initializeClient restoreSessionsOnStart awaits threw: the failure is
\* kept in place of a promise.
RestoreInitFailed(s) ==
  /\ Serving
  /\ restorer.pc = "await" /\ restorer.cur = s
  /\ InitializeCatch(s)
  /\ restorer' = [restorer EXCEPT !.pc = "loop", !.cur = "none",
                                  !.threw = @ \cup {s}]

\* A collected promise has settled.
Settled(w) == promises[w[1]][w[2]].state # "pending"

\* Promise.allSettled returned: the summary is logged and the interval set.
RestoreSummary ==
  /\ Serving
  /\ restorer.pc = "waiting"
  /\ \A w \in restorer.waits : Settled(w)
  /\ restorer' = [restorer EXCEPT
       !.pc = "done", !.summary = TRUE, !.interval = TRUE,
       !.successful = {w[1] : w \in {x \in restorer.waits :
                         promises[x[1]][x[2]].state = "resolved"}},
       !.failed = restorer.threw \cup
                  {w[1] : w \in {x \in restorer.waits :
                         promises[x[1]][x[2]].state = "rejected"}}]
  /\ UNCHANGED <<serviceVars, configVars, asked, sweep, fanout, qrCodes, nodeEnv, waiter, gone>>

\* Five minutes pass: every entry there is becomes older than maxWaitTime.
\* The loop of restoreSessionsOnStart, each call bounded by
\* config.clientTimeout, is over by then.
TimePasses ==
  /\ Serving
  /\ restorer.pc \in {"waiting", "done"}
  /\ \E s \in SessionIds : restorationPromises[s].p # 0 /\ ~restorationPromises[s].old
  /\ restorationPromises' = [s \in SessionIds |->
       IF restorationPromises[s].p # 0
       THEN [restorationPromises[s] EXCEPT !.old = TRUE]
       ELSE restorationPromises[s]]
  /\ UNCHANGED <<clients, session, inflight, pending, stopProc, emitted, fails,
                 stops, enqueued, delivered, scen, lastResult, engine, proc,
                 reconnects, cleaning, created, configVars, asked, sweep, fanout,
                 qrCodes, scheduled,
                 promises, restVars, gone>>

\* The promises after the entries older than maxWaitTime were rejected.
OrphansRejected ==
  [s \in SessionIds |->
     IF restorationPromises[s].old
     THEN [promises[s] EXCEPT ![restorationPromises[s].p] =
             [@ EXCEPT !.state = "rejected",
                       !.value = [NoValue EXCEPT !.status =
                                    "Timeout waiting for restoration"]]]
     ELSE promises[s]]

\* A cleanupOrphanedPromises that rejects the old entries and keeps them.
cleanupOrphanedPromisesKept ==
  /\ restorationPromises' = restorationPromises
  /\ promises' = OrphansRejected

\* cleanupOrphanedPromises: every entry older than maxWaitTime is rejected
\* and deleted.
cleanupOrphanedPromises ==
  /\ restorationPromises' = [s \in SessionIds |->
       IF restorationPromises[s].old THEN NoHandle ELSE restorationPromises[s]]
  /\ promises' = OrphansRejected

\* cleanupOrphanedPromises is run by one of its intervals: the one
\* restoreSessionsOnStart sets, or the one of SessionLifecycleManager through
\* a cleanupExpiredSessions(false) that finds no session to clean up.
SweepOrphans ==
  /\ Serving
  /\ restorer.interval \/ \A s \in clients : session[s].reconnectionAttempts <= 5
  /\ \E s \in SessionIds : restorationPromises[s].old
  /\ cleanupOrphanedPromises
  /\ UNCHANGED <<clients, session, inflight, pending, stopProc, emitted, fails,
                 stops, enqueued, delivered, scen, lastResult, engine, proc,
                 reconnects, cleaning, created, configVars, asked, sweep, fanout,
                 qrCodes, scheduled,
                 restVars, gone>>

\* 'error': the entry of the id, if any, is rejected and deleted.
EngineError(s) ==
  /\ Alive(s)
  /\ isRestoring(s)
  /\ CommitHandle(s, RejectHandle(LWorld(s), "client error"))
  /\ session' = [session EXCEPT ![s].idle = 0]
  /\ UNCHANGED <<clients, inflight, pending, stopProc, emitted, fails,
                 stops, enqueued, delivered, scen, lastResult, engine, proc,
                 reconnects, cleaning, created, configVars, asked, sweep, fanout,
                 qrCodes, scheduled,
                 restVars, gone>>

\* waitForSessionReady(sessionId, timeoutMs) of sessionRestorer.js finds the
\* entry of the id and races its promise against a timer: the promise has a
\* handler from here on. Each id is waited for once.
WaitForSessionReady(s) ==
  /\ Serving
  /\ waiter[s].p = 0
  /\ isRestoring(s)
  /\ waiter' = [waiter EXCEPT ![s] = [p |-> restorationPromises[s].p,
                                      out |-> "waiting"]]
  /\ promises' = [promises EXCEPT ![s][restorationPromises[s].p].handled = TRUE]
  /\ UNCHANGED <<clients, session, inflight, pending, stopProc, emitted, fails,
                 stops, enqueued, delivered, scen, lastResult, engine, proc,
                 reconnects, cleaning, created, configVars, asked, sweep, fanout,
                 qrCodes, scheduled,
                 restorationPromises, restorer, nodeEnv, gone>>

\* A timer of waitForSessionReady that rejects and deletes the entry it
\* waited for.
TimeoutRejectsHandle(s) ==
  /\ waiter' = [waiter EXCEPT ![s].out = "timeout"]
  /\ CommitHandle(s, RejectHandle(LWorld(s), "Timeout esperando sesion"))

\* The timer of waitForSessionReady rejects the promise it made itself, and
\* with it the race.
TimeoutRejects(s) ==
  /\ waiter' = [waiter EXCEPT ![s].out = "timeout"]
  /\ UNCHANGED <<restorationPromises, promises>>

\* timeoutMs went by before the promise of the entry settled.
WaitTimeout(s) ==
  /\ Serving
  /\ waiter[s].out = "waiting"
  /\ promises[s][waiter[s].p].state = "pending"
  /\ TimeoutRejects(s)
  /\ UNCHANGED <<clients, session, inflight, pending, stopProc, emitted, fails,
                 stops, enqueued, delivered, scen, lastResult, engine, proc,
                 reconnects, cleaning, created, configVars, asked, sweep, fanout,
                 qrCodes, scheduled,
                 restorer, nodeEnv, gone>>

\* What the caller of waitForSessionReady has got.
WaitResult(s) ==
  IF waiter[s].p = 0 THEN "none"
  ELSE IF waiter[s].out = "timeout" THEN "rejected"
  ELSE promises[s][waiter[s].p].state

\* initializeClient up to its first await: validateSessionCreation let the
\* id pass, and the call is suspended at the await of its answer.
ValidateCreation(s) ==
  /\ proc[s].pc = "idle"
  /\ Cardinality(clients) < maxSessions
  /\ proc' = [proc EXCEPT ![s] = [IdleFlow EXCEPT !.pc = "validated"]]
  /\ UNCHANGED <<clients, session, inflight, pending, stopProc, emitted, fails,
                 stops, enqueued, delivered, scen, lastResult, engine,
                 reconnects, cleaning, created, configVars, asked, sweep, fanout, qrCodes,
                 scheduled, restorationPromises, promises, restVars, gone>>

\* initializeClient for an id validateSessionCreation turns down because the
\* registry is full, whether the id is in the registry or not: it throws
\* before it touches anything.
InitializeRejected(s) ==
  /\ proc[s].pc = "idle"
  /\ Cardinality(clients) >= maxSessions
  /\ Commit(s, [World(s) EXCEPT !.res = "system_limit_reached"])
  /\ UNCHANGED <<clients, pending, emitted, fails, stops, delivered, lifeVars>>

\* initializeClient goes on after that await: the id gets its session
\* object, if it has none, and its client.
InitializeResume(s) ==
  /\ proc[s].pc = "validated"
  /\ CommitAll(s, World(s), InitTop(s, [LWorld(s) EXCEPT !.flow = IdleFlow]))
  /\ UNCHANGED <<pending, emitted, fails, stops, reconnects, configVars, asked, sweep,
                 fanout, qrCodes, restVars>>

\* ------------------------------------------------------- validateSessionId
\* A sessionId as a caller passes it: a string of these characters, or
\* something that is no string.
SessionIdInputs ==
  {[type |-> "string", chars |-> c] :
     c \in UNION {[1..k -> IdChars] : k \in 0..(LowMaxIdLength + 1)}}
  \cup {[type |-> ty, chars |-> <<>>] : ty \in {"undefined", "number"}}

\* String.prototype.toLowerCase on these characters.
toLowerCase(chars) ==
  [i \in DOMAIN chars |-> IF chars[i] = "I" THEN "i" ELSE chars[i]]

\* config.security.allowedSessionIdChars, ^[a-zA-Z0-9_-]+$, on these
\* characters: the letters and the hyphen match, the exclamation mark does
\* not.
MatchesAllowedChars(chars) ==
  /\ chars # <<>>
  /\ \A i \in DOMAIN chars : chars[i] \in {"a", "p", "i", "I", "-"}

\* The reservedWords of validateSessionId.
reservedWords ==
  {<<"a", "d", "m", "i", "n">>, <<"s", "y", "s", "t", "e", "m">>,
   <<"a", "p", "i">>, <<"w", "e", "b", "h", "o", "o", "k">>,
   <<"h", "e", "a", "l", "t", "h">>, <<"s", "t", "a", "t", "s">>}

\* A validateSessionId that knows no reserved word.
validateSessionIdUnreserved(id) ==
  IF ~security.sessionIdValidation THEN [valid |-> TRUE, reason |-> "none"]
  ELSE IF id.type # "string" \/ id.chars = <<>>
  THEN [valid |-> FALSE, reason |-> "not a non-empty string"]
  ELSE IF Len(id.chars) > security.maxSessionIdLength
  THEN [valid |-> FALSE, reason |-> "too long"]
  ELSE IF Len(id.chars) < 3
  THEN [valid |-> FALSE, reason |-> "too short"]
  ELSE IF ~MatchesAllowedChars(id.chars)
  THEN [valid |-> FALSE, reason |-> "characters"]
  ELSE [valid |-> TRUE, reason |-> "none"]

\* config.validateSessionId(sessionId)
validateSessionId(id) ==
  IF ~security.sessionIdValidation THEN [valid |-> TRUE, reason |-> "none"]
  ELSE IF id.type # "string" \/ id.chars = <<>>
  THEN [valid |-> FALSE, reason |-> "not a non-empty string"]
  ELSE IF Len(id.chars) > security.maxSessionIdLength
  THEN [valid |-> FALSE, reason |-> "too long"]
  ELSE IF Len(id.chars) < 3
  THEN [valid |-> FALSE, reason |-> "too short"]
  ELSE IF ~MatchesAllowedChars(id.chars)
  THEN [valid |-> FALSE, reason |-> "characters"]
  ELSE IF toLowerCase(id.chars) \in reservedWords
  THEN [valid |-> FALSE, reason |-> "reserved word"]
  ELSE [valid |-> TRUE, reason |-> "none"]

\* validateSessionCreation(sessionId): the global limit, then the id.
validateSessionCreation(id) ==
  IF Cardinality(clients) >= maxSessions
  THEN [allowed |-> FALSE, reason |-> "system_limit_reached"]
  ELSE [allowed |-> validateSessionId(id).valid,
        reason |-> validateSessionId(id).reason]

\* initializeClient(sessionId, {fromDisk}) with the sessionId callers pass
\* for s, while no session is stored under it: the call throws when
\* validateSessionCreation does not allow it, before anything is written;
\* otherwise the entry of the id is created with fromDisk, and the id gets
\* its session object and its client.
CreateWithId(s, fromDisk) ==
  /\ s \notin clients
  /\ proc[s].pc = "idle"
  /\ IF ~validateSessionCreation(asked.id).allowed
     THEN /\ asked' = [asked EXCEPT !.answer = "rejected"]
          /\ UNCHANGED <<clients, session, inflight, stopProc, enqueued,
                         delivered, scen, lastResult, engine, proc, cleaning,
                         created, scheduled, restorationPromises, promises,
                         gone>>
     ELSE /\ asked' = [asked EXCEPT !.answer = "accepted"]
          /\ LET lw == [LWorld(s) EXCEPT !.flow = IdleFlow]
             IN CommitAll(s, World(s),
                          IF fromDisk THEN RestoreTop(s, lw) ELSE InitTop(s, lw))
  /\ UNCHANGED <<pending, emitted, fails, stops, reconnects, configVars,
                 sweep, fanout, qrCodes, restVars>>

\* ------------------------------------------------- calls on a missing id
\* updateChatListeningStatus(sessionId, chatId, isListening) on a session of
\* the registry: chatFilters gets the value for the chat before chatService
\* is awaited.
UpdateChatListeningStatus(s, c, isListening) ==
  /\ s \in clients
  /\ session' = [session EXCEPT ![s].chatFilters[c] =
                   IF isListening THEN "on" ELSE "off"]
  /\ UNCHANGED <<clients, inflight, pending, stopProc, emitted, fails, stops,
                 enqueued, delivered, scen, lastResult, lifeVars>>

\* throw new Error(`Sesión ${sessionId} no encontrada`)
SessionNotFound(w) == [w EXCEPT !.res = "not_found"]

\* startListening(sessionId) without a session under the id.
StartListeningUnknown(s) ==
  /\ s \notin clients
  /\ Commit(s, SessionNotFound(World(s)))
  /\ UNCHANGED <<clients, pending, emitted, fails, stops, delivered, lifeVars>>

\* stopListening(sessionId) without a session under the id.
StopListeningUnknown(s) ==
  /\ s \notin clients
  /\ Commit(s, SessionNotFound(World(s)))
  /\ UNCHANGED <<clients, pending, emitted, fails, stops, delivered, lifeVars>>

\* updateChatListeningStatus(sessionId, chatId, isListening) without a
\* session under the id.
UpdateChatUnknown(s) ==
  /\ s \notin clients
  /\ Commit(s, SessionNotFound(World(s)))
  /\ UNCHANGED <<clients, pending, emitted, fails, stops, delivered, lifeVars>>

\* reconnectSession(sessionId) without a session under the id.
ReconnectUnknown(s) ==
  /\ s \notin clients
  /\ proc[s].pc = "idle"
  /\ CommitAll(s, SessionNotFound(World(s)), ReconnectStart(s, LWorld(s)))
  /\ UNCHANGED <<pending, emitted, fails, stops, reconnects, configVars, asked, sweep,
                 fanout, qrCodes,
                 restVars>>

\* --------------------------------------------------- cleanupExpiredSessions
\* What req.query gives SessionController.cleanupExpiredSessions for force:
\* nothing, or the string of the request.
Queries == {"absent", "true", "false"}

\* const { force = false } = req.query, as the service's force || ... takes
\* it: false without the parameter, a non-empty string with it.
Truthy(q) == q # "absent"

\* shouldCleanup of cleanupExpiredSessions.
shouldCleanup(sr, force) ==
  \/ force
  \/ sr.idle = 2
  \/ sr.reconnectionAttempts > 5
  \/ (~sr.client /\ sr.idle >= 1)

\* A macrotask can run: cleanupExpiredSessions is not between two sessions
\* of its loop.
Settling == sweep.pc # "running"

\* Hours go by for a session: the time since createdAt and the time since
\* lastActivity pass the next threshold.
GrowOlder(s) ==
  /\ Settling
  /\ s \in clients
  /\ session[s].age < 2
  /\ session' = [session EXCEPT ![s].age = @ + 1,
                                ![s].idle = Min(@ + 1, 2)]
  /\ UNCHANGED <<clients, inflight, pending, stopProc, emitted, fails, stops,
                 enqueued, delivered, scen, lastResult, lifeVars>>

\* POST /api/sessions/cleanup, or the interval of SessionLifecycleManager
\* (which passes false): cleanupExpiredSessions starts its report and runs
\* cleanupOrphanedPromises.
SweepBegin(q) ==
  /\ sweep.pc \in {"idle", "over"}
  /\ sweep' = [IdleSweep EXCEPT !.pc = "running", !.query = q,
                                !.force = Truthy(q), !.start = clients]
  /\ cleanupOrphanedPromises
  /\ UNCHANGED <<clients, session, inflight, pending, stopProc, emitted, fails,
                 stops, enqueued, delivered, scen, lastResult, engine, proc,
                 reconnects, cleaning, created, configVars, asked, fanout,
                 qrCodes, scheduled, restVars, gone>>

\* The loop of cleanupExpiredSessions comes to the next session of the
\* registry, or to the end. A session past inactiveThreshold is reported
\* inactive; one that shouldCleanup holds for is reported expired and
\* cleanupSession is called for it, which deletes a session without a
\* client at once and awaits client.destroy() of any other.
SweepStep ==
  /\ sweep.pc = "running"
  /\ IF clients \ sweep.seen = {}
     THEN /\ sweep' = [sweep EXCEPT !.pc = "over"]
          /\ UNCHANGED <<clients, session, inflight, stopProc, enqueued,
                         delivered, scen, lastResult, engine, proc, cleaning,
                         created, scheduled, restorationPromises, promises,
                         gone>>
     ELSE \E s \in clients \ sweep.seen :
            LET sr == session[s]
                flagged == IF sr.idle >= 1 THEN {s} ELSE {}
                seen == [sweep EXCEPT !.seen = @ \cup {s},
                                      !.inactive = @ \cup flagged]
            IN IF ~shouldCleanup(sr, sweep.force)
               THEN /\ sweep' = seen
                    /\ UNCHANGED <<clients, session, inflight, stopProc,
                                   enqueued, delivered, scen, lastResult,
                                   engine, proc, cleaning, created, scheduled,
                                   restorationPromises, promises, gone>>
               ELSE /\ ~cleaning[s]
                    /\ sr.isListening => stopProc[s].pc # "flushing"
                    /\ sweep' = IF sr.client
                                THEN [seen EXCEPT !.expired = @ \cup {s},
                                                  !.pc = "cleaning", !.cur = s]
                                ELSE [seen EXCEPT !.expired = @ \cup {s},
                                                  !.cleaned = @ \cup {s}]
                    /\ LET w == CleanupStop(s, World(s))
                       IN CommitAll(s, w,
                            CleanupRest(s, [LWorld(s) EXCEPT !.sess = w.sess]))
  /\ UNCHANGED <<pending, emitted, fails, stops, reconnects, configVars, asked,
                 fanout, qrCodes, restVars>>

\* The client.destroy() cleanupSession awaits for the sweep settled,
\* resolved or rejected: cleanupSession logs a rejection, deletes the id
\* and returns, and the sweep reports the session cleaned and goes on.
SweepDestroyed(ok) ==
  /\ sweep.pc = "cleaning"
  /\ cleaning[sweep.cur]
  /\ sweep' = [sweep EXCEPT !.pc = "running", !.cur = "none",
                            !.cleaned = @ \cup {sweep.cur},
                            !.failed = IF ok THEN @ ELSE @ \cup {sweep.cur}]
  /\ CommitAll(sweep.cur, World(sweep.cur),
       [LWorld(sweep.cur) EXCEPT !.reg = @ \ {sweep.cur}, !.sess = NewSession,
                                 !.eng = "none", !.cleaning = FALSE])
  /\ UNCHANGED <<pending, emitted, fails, stops, reconnects, configVars, asked,
                 fanout, qrCodes, restVars>>

\* ------------------------------------------- events of a destroyed client
\* The client destroyClient is destroying, or failed to destroy, emits an
\* event: its handlers stay registered on it and do not ask whether it is
\* still the client in use.
Destroyed(s) == Alive(s) /\ engine[s] = "destroyed"

\* 'ready' of a destroyed client.
LateReady(s) ==
  /\ Destroyed(s)
  /\ session' = [session EXCEPT ![s].isConnected = TRUE,
                                ![s].reconnectionAttempts = 0,
                                ![s].idle = 0]
  /\ scheduled' = [scheduled EXCEPT ![s] = 0]
  /\ qrCodes' = qrCodes \ {s}
  /\ fanout' = [fanout EXCEPT ![s] = markSessionConnected(@)]
  /\ CommitHandle(s, Settle(LWorld(s), "resolved", ReadyValue(s)))
  /\ UNCHANGED <<clients, inflight, pending, stopProc, emitted, fails, stops,
                 enqueued, delivered, scen, lastResult, engine, proc,
                 reconnects, cleaning, created, configVars, asked, sweep,
                 restVars, gone>>

\* 'disconnected' of a destroyed client.
LateDisconnected(s, r) ==
  /\ Destroyed(s)
  /\ session[s].reconnectionAttempts < MaxAttempts
  /\ Len(reconnects[s]) < MaxReconnects
  /\ LET marked == [session[s] EXCEPT !.isConnected = FALSE,
                                      !.lastDisconnectionReason = r,
                                      !.idle = 0]
         auto == handleAutomaticReconnection(marked, r)
     IN /\ session' = [session EXCEPT ![s] = auto.sess]
        /\ reconnects' = [reconnects EXCEPT ![s] =
             IF auto.schedule THEN Schedule(@, auto.delay) ELSE @]
        /\ scheduled' = [scheduled EXCEPT ![s] =
             IF auto.schedule THEN @ + 1 ELSE @]
  /\ CommitHandle(s, RejectHandle(LWorld(s), "Disconnected during restoration"))
  /\ UNCHANGED <<clients, inflight, pending, stopProc, emitted, fails, stops,
                 enqueued, delivered, scen, lastResult, engine, proc, cleaning,
                 created, configVars, asked, sweep, fanout, qrCodes, restVars,
                 gone>>

\* ---------------------------------------------------------- specifications
Next ==
  \/ \E s \in Followed : CreateSession(s)
  \/ \E s \in Followed : StartListening(s)
  \/ \E s \in Followed : StopListeningCall(s)
  \/ \E s \in Followed, c \in Chats : MessageEvent(s, c, MaxMsgs)
  \/ \E s \in Followed, c \in Chats : HandleMessageAppend(s, c)
  \/ \E s \in Followed, c \in Chats : TimerFire(s, c)
  \/ Tick
  \/ \E f \in inflight : SendSuccess(f)
  \/ \E f \in inflight : SendFail(f)

Spec == Init /\ [][Next]_vars

\* The pipeline of a session that is never told to stop listening.
NextChunk ==
  \/ \E s \in Followed : CreateSession(s)
  \/ \E s \in Followed : StartListening(s)
  \/ \E s \in Followed, c \in Chats : MessageEvent(s, c, MaxChunkMsgs)
  \/ \E s \in Followed, c \in Chats : HandleMessageAppend(s, c)
  \/ \E s \in Followed, c \in Chats : TimerFire(s, c)
  \/ Tick
  \/ \E f \in inflight : SendSuccess(f)
  \/ \E f \in inflight : SendFail(f)

SpecChunk == Init /\ [][NextChunk]_vars

\* The life of a session that nobody listens to: its handle, its
\* reconnections and its removal.
NextLifecycle ==
  \/ \E s \in Followed : InitializeClient(s)
  \/ \E s \in Followed : InitializeDone(s)
  \/ \E s \in Followed : InitializeFail(s)
  \/ \E s \in Followed : CleanupCall(s)
  \/ \E s \in Followed : CleanupEnd(s)
  \/ \E s \in Followed : ReconnectFire(s)
  \/ \E s \in Followed : ReconnectCall(s)
  \/ \E s \in Followed, st \in EngineStates : GetStateDone(s, st)
  \/ \E s \in Followed, st \in EngineStates : GetStateInitDone(s, st)
  \/ \E s \in Followed, ok \in BOOLEAN : DestroyDone(s, ok)
  \/ \E s \in Followed : EngineAuthenticated(s)
  \/ \E s \in Followed : EngineReady(s)
  \/ \E s \in Followed : EngineAuthFailure(s)
  \/ \E s \in Followed, r \in Reasons : EngineDisconnected(s, r)

SpecLifecycle == Init /\ [][NextLifecycle]_vars

\* The reconnection policy at work under either configuration: engine
\* events, the callbacks they schedule and the reconnections these run.
NextPolicy ==
  \/ \E s \in Followed : InitializeClient(s)
  \/ \E s \in Followed : InitializeDone(s)
  \/ \E s \in Followed : ReconnectFire(s)
  \/ \E s \in Followed, st \in EngineStates : GetStateDone(s, st)
  \/ \E s \in Followed, st \in EngineStates : GetStateInitDone(s, st)
  \/ \E s \in Followed, ok \in BOOLEAN : DestroyDone(s, ok)
  \/ \E s \in Followed : EngineAuthenticated(s)
  \/ \E s \in Followed : EngineReady(s)
  \/ \E s \in Followed : EngineAuthFailure(s)
  \/ \E s \in Followed, r \in Reasons : EngineDisconnected(s, r)

SpecPolicy == InitConfigured /\ [][NextPolicy]_vars

\* The sessions found on disk are restored while the engine reports, time
\* passes and callers create and clean sessions up; callers create within
\* MaxCreates only what leaves a session object for each folder still to
\* restore.
NextRestore ==
  \/ RestoreNext
  \/ \E s \in SessionIds : RestoreInitialized(s)
  \/ \E s \in SessionIds : RestoreInitFailed(s)
  \/ RestoreSummary
  \/ TimePasses
  \/ SweepOrphans
  \/ \E s \in SessionIds :
       Serving /\ created + Len(restorer.todo) < MaxCreates /\ CreateSession(s)
  \/ \E s \in SessionIds : Serving /\ InitializeDone(s)
  \/ \E s \in SessionIds : Serving /\ InitializeFail(s)
  \/ \E s \in SessionIds : Serving /\ isRestoring(s) /\ CleanupCall(s)
  \/ \E s \in SessionIds : Serving /\ CleanupEnd(s)
  \/ \E s \in SessionIds : Serving /\ EngineAuthenticated(s)
  \/ \E s \in SessionIds : Serving /\ EngineReady(s)
  \/ \E s \in SessionIds : Serving /\ isRestoring(s) /\ EngineAuthFailure(s)
  \/ \E s \in SessionIds : Serving /\ isRestoring(s) /\ EngineDisconnected(s, "LOGOUT")
  \/ \E s \in SessionIds : Serving /\ EngineError(s)

SpecRestore == InitRestore /\ [][NextRestore]_vars

\* The same, where the event loop does not starve: the loop of
\* restoreSessionsOnStart goes on, an awaited initializeClient returns
\* within config.clientTimeout, time passes and the intervals run.
SpecRestoreFair ==
  /\ SpecRestore
  /\ WF_vars(RestoreNext)
  /\ \A s \in SessionIds : WF_vars(RestoreInitialized(s))
  /\ WF_vars(TimePasses)
  /\ WF_vars(SweepOrphans)

\* The restoration with a caller that waits for the followed session to be
\* ready.
NextWait ==
  \/ NextRestore
  \/ \E s \in Followed : WaitForSessionReady(s)
  \/ \E s \in Followed : WaitTimeout(s)

SpecWait == InitRestore /\ [][NextWait]_vars

\* The pipeline of a session that callers also clean up and create again.
NextTeardown ==
  \/ Next
  \/ \E s \in Followed : CleanupCall(s)
  \/ \E s \in Followed : CleanupEnd(s)

SpecTeardown == Init /\ [][NextTeardown]_vars

\* The service starts with MAX_SESSIONS set to what the ids can reach.
InitQuota ==
  /\ Started
  /\ reconnection = [maxAttempts |-> DefaultMaxAttempts]
  /\ maxSessions \in 1..Cardinality(SessionIds)
  /\ security = DefaultSecurity
  /\ asked = NoCall
  /\ restorer = IdleRestorer
  /\ nodeEnv = "development"

\* Callers create and clean up sessions next to one another, each
\* initializeClient suspended between its validation and what follows.
NextQuota ==
  \/ \E s \in SessionIds : ValidateCreation(s)
  \/ \E s \in SessionIds : InitializeResume(s)
  \/ \E s \in SessionIds : InitializeRejected(s)
  \/ \E s \in SessionIds : InitializeDone(s)
  \/ \E s \in SessionIds : InitializeFail(s)
  \/ \E s \in SessionIds : CleanupCall(s)
  \/ \E s \in SessionIds : CleanupEnd(s)
  \/ \E s \in SessionIds : EngineAuthenticated(s)
  \/ \E s \in SessionIds : EngineReady(s)

SpecQuota == InitQuota /\ [][NextQuota]_vars

\* The service starts with MAX_SESSION_ID_LENGTH set low and
\* STRICT_SESSION_ID_VALIDATION unset or set to 'false'.
InitValidate ==
  /\ Started
  /\ reconnection = [maxAttempts |-> DefaultMaxAttempts]
  /\ maxSessions = DefaultMaxSessions
  /\ security \in [sessionIdValidation : BOOLEAN,
                   maxSessionIdLength : {LowMaxIdLength}]
  /\ asked \in [id : SessionIdInputs, answer : {"none"}]
  /\ restorer = IdleRestorer
  /\ nodeEnv = "development"

\* Callers create the followed session under the sessionId they chose,
\* from disk or not, and clean it up.
NextValidate ==
  \/ \E s \in Followed, d \in BOOLEAN : CreateWithId(s, d)
  \/ \E s \in Followed : InitializeDone(s)
  \/ \E s \in Followed : CleanupCall(s)
  \/ \E s \in Followed : CleanupEnd(s)

SpecValidate == InitValidate /\ [][NextValidate]_vars

\* Callers create the followed session, listen, filter chats and clean the
\* session up, and call for it while it is not there.
NextUnknown ==
  \/ \E s \in Followed : CreateSession(s)
  \/ \E s \in Followed : InitializeDone(s)
  \/ \E s \in Followed : StartListening(s)
  \/ \E s \in Followed, c \in Chats, b \in BOOLEAN : UpdateChatListeningStatus(s, c, b)
  \/ \E s \in Followed : CleanupCall(s)
  \/ \E s \in Followed : CleanupEnd(s)
  \/ \E s \in Followed : StartListeningUnknown(s)
  \/ \E s \in Followed : StopListeningUnknown(s)
  \/ \E s \in Followed : UpdateChatUnknown(s)
  \/ \E s \in Followed : ReconnectUnknown(s)

SpecUnknown == Init /\ [][NextUnknown]_vars

\* The pipeline of a session whose chats callers filter on and off.
NextFilter ==
  \/ \E s \in Followed : CreateSession(s)
  \/ \E s \in Followed : StartListening(s)
  \/ \E s \in Followed, c \in Chats, b \in BOOLEAN : UpdateChatListeningStatus(s, c, b)
  \/ \E s \in Followed, c \in Chats : MessageEvent(s, c, MaxMsgs)
  \/ \E s \in Followed, c \in Chats : HandleMessageAppend(s, c)
  \/ \E s \in Followed, c \in Chats : TimerFire(s, c)
  \/ Tick
  \/ \E f \in inflight : SendSuccess(f)
  \/ \E f \in inflight : SendFail(f)

SpecFilter == Init /\ [][NextFilter]_vars

\* Sessions are created, grow old, connect and lose their connection while
\* callers and the interval of SessionLifecycleManager run the sweep.
NextSweep ==
  \/ \E q \in Queries : SweepBegin(q)
  \/ SweepStep
  \/ \E ok \in BOOLEAN : SweepDestroyed(ok)
  \/ \E s \in SessionIds : Settling /\ CreateSession(s)
  \/ \E s \in SessionIds : Settling /\ InitializeDone(s)
  \/ \E s \in SessionIds : GrowOlder(s)
  \/ \E s \in Followed : Settling /\ EngineAuthenticated(s)
  \/ \E s \in Followed : Settling /\ EngineReady(s)
  \/ \E s \in Followed : Settling /\ EngineDisconnected(s, "LOGOUT")

SpecSweep == Init /\ [][NextSweep]_vars

\* Sessions are created without fromDisk, show their QR, are scanned and
\* connect, lose the connection and are cleaned up.
NextFanout ==
  \/ \E s \in SessionIds : CreateSession(s)
  \/ \E s \in SessionIds : InitializeDone(s)
  \/ \E s \in SessionIds, wrote \in BOOLEAN : EngineQr(s, wrote)
  \/ \E s \in SessionIds : EngineAuthenticated(s)
  \/ \E s \in SessionIds : EngineReady(s)
  \/ \E s \in SessionIds : EngineDisconnected(s, "LOGOUT")
  \/ \E s \in SessionIds : CleanupCall(s)
  \/ \E s \in SessionIds : CleanupEnd(s)

SpecFanout == Init /\ [][NextFanout]_vars

\* A session that callers start and stop listening to while its connection
\* is lost, reconnected and its client replaced.
NextListen ==
  \/ \E s \in Followed : InitializeClient(s)
  \/ \E s \in Followed : InitializeDone(s)
  \/ \E s \in Followed : StartListening(s)
  \/ \E s \in Followed : StopListeningCall(s)
  \/ \E s \in Followed : ReconnectFire(s)
  \/ \E s \in Followed : ReconnectCall(s)
  \/ \E s \in Followed, st \in EngineStates : GetStateDone(s, st)
  \/ \E s \in Followed, st \in EngineStates : GetStateInitDone(s, st)
  \/ \E s \in Followed, ok \in BOOLEAN : DestroyDone(s, ok)
  \/ \E s \in Followed : EngineAuthenticated(s)
  \/ \E s \in Followed : EngineReady(s)
  \/ \E s \in Followed, r \in Reasons : EngineDisconnected(s, r)

SpecListen == Init /\ [][NextListen]_vars

\* The pipeline of a session whose client is replaced by a second
\* initializeClient while messages wait in its buffers.
NextStop ==
  \/ \E s \in Followed : InitializeClient(s)
  \/ \E s \in Followed : InitializeDone(s)
  \/ \E s \in Followed, st \in EngineStates : GetStateInitDone(s, st)
  \/ \E s \in Followed, ok \in BOOLEAN : DestroyDone(s, ok)
  \/ \E s \in Followed : StartListening(s)
  \/ \E s \in Followed : StopListeningCall(s)
  \/ \E s \in Followed, c \in Chats : MessageEvent(s, c, MaxMsgs)
  \/ \E s \in Followed, c \in Chats : HandleMessageAppend(s, c)
  \/ \E f \in inflight : SendSuccess(f)

SpecStop == Init /\ [][NextStop]_vars

\* A session whose client is destroyed and replaced while the client being
\* destroyed still reports.
NextLate ==
  \/ \E s \in Followed : InitializeClient(s)
  \/ \E s \in Followed : InitializeDone(s)
  \/ \E s \in Followed : ReconnectFire(s)
  \/ \E s \in Followed, st \in EngineStates : GetStateDone(s, st)
  \/ \E s \in Followed, st \in EngineStates : GetStateInitDone(s, st)
  \/ \E s \in Followed, ok \in BOOLEAN : DestroyDone(s, ok)
  \/ \E s \in Followed : EngineAuthenticated(s)
  \/ \E s \in Followed : EngineReady(s)
  \/ \E s \in Followed : LateReady(s)
  \/ \E s \in Followed, r \in Reasons : LateDisconnected(s, r)

SpecLate == Init /\ [][NextLate]_vars

\* ------------------------------------------------------------------ claims
\* The buffer of a chat of a registered session.
Buffer(s, c) == session[s].messageBuffer[c]

\* The inbound messages of a sequence, without the summary commands.
Inbound(seq) == SelectSeq(seq, LAMBDA m : m # CommandMessage)

\* The messages k+1 .. k+n, in order.
Consecutive(k, n) == [i \in 1..n |-> k + i]

\* C1: for every session and chat, the messages of the successful webhook
\* batches, concatenated in the order the batches succeed, are the messages
\* pushed to the chat's buffer, in push order: the i-th message delivered is
\* the i-th message enqueued.
C1_DeliveredInEnqueueOrder ==
  \A s \in SessionIds, c \in Chats :
    \A i \in 1..Len(delivered[s][c]) : delivered[s][c][i] = i

\* C2: a failed batch is put back at the front of the chat's buffer, so in
\* the buffer (the next batch) its messages precede the messages enqueued
\* while the send was in flight: the buffer stays in enqueue order.
C2_FailedBatchFirst ==
  \A s \in clients, c \in Chats :
    LET buf == Inbound(Buffer(s, c))
    IN \A i, j \in 1..Len(buf) : i < j => buf[i] < buf[j]

\* C3: while a session is in the registry, every message that was pushed to
\* one of its buffers is still in the buffer, is in a batch whose send has
\* not settled, or was in a batch whose send returned success.
C3_AtLeastOnce ==
  \A s \in clients, c \in Chats :
    \A m \in 1..enqueued[s][c] :
      \/ m \in Range(delivered[s][c])
      \/ m \in Range(Buffer(s, c))
      \/ \E f \in inflight : f.sid = s /\ f.chat = c /\ m \in Range(f.messages)

\* C4: in every reachable state, a non-empty chat buffer either has reached
\* the chunk size or has a chunk timer armed.
C4_BufferHasTimer ==
  \A s \in clients, c \in Chats :
    Buffer(s, c) # <<>> =>
      \/ Len(Buffer(s, c)) >= messageChunkSize
      \/ session[s].chunkTimers[c] # NoTimer

\* C5: the step in which a webhook send fails leaves a chunk timer armed for
\* the chat of the failed batch, so a later flush sends the batch again
\* without any further message.
C5_TimerArmedAfterFailure ==
  [][\A f \in inflight :
       SendFail(f) => session'[f.sid].chunkTimers[f.chat] # NoTimer]_vars

\* C6: once the caller of stopListening has been answered, the forced flush
\* is over: no send of sendStopListeningCommand is unsettled and
\* stopListening has run to its end.
C6_AnsweredAfterFlush ==
  \A s \in SessionIds :
    stopProc[s].reported =>
      /\ stopProc[s].pc = "done"
      /\ ~\E f \in inflight : f.sid = s /\ f.owner = "stop"

\* C7: when exactly messageChunkSize messages were enqueued into a chat that
\* was empty with no timer, the chat has been flushed once, with these
\* messages, and has no timer; when messageChunkSize - 1 were enqueued and
\* the timer has not come due, nothing was sent and the timer is armed.
C7_ChunkBoundary ==
  \A s \in clients, c \in Chats :
    LET sc == scen[s][c]
    IN /\ sc.n = messageChunkSize =>
            /\ Buffer(s, c) = <<>>
            /\ session[s].chunkTimers[c] = NoTimer
            /\ sc.sends = <<Consecutive(enqueued[s][c] - messageChunkSize, messageChunkSize)>>
       /\ (sc.n = messageChunkSize - 1 /\ ~sc.fired) =>
            /\ sc.sends = <<>>
            /\ session[s].chunkTimers[c] # NoTimer
            /\ Len(Buffer(s, c)) = messageChunkSize - 1

C7_Witness ==
  \E s \in clients, c \in Chats :
    /\ scen[s][c].n = messageChunkSize
    /\ \E f \in inflight : f.sid = s /\ f.chat = c /\ Len(f.messages) = messageChunkSize

\* C8: with chunk size 5 and interval 30000 ms, after 3 messages were
\* enqueued into a chat that was empty with no timer and nothing else came
\* in: before the timer fires nothing was sent and the 3 messages wait in
\* the buffer, the timer being due exactly when 30000 ms have passed; after
\* it fired, 30000 ms have passed and exactly one send was made, with the 3
\* messages in enqueue order.
C8_TimerFlush ==
  \A s \in clients, c \in Chats :
    LET sc == scen[s][c]
        three == Consecutive(enqueued[s][c] - 3, 3)
    IN sc.n = 3 =>
         IF ~sc.fired
         THEN /\ sc.sends = <<>>
              /\ Buffer(s, c) = three
              /\ session[s].chunkTimers[c] # NoTimer
              /\ (session[s].chunkTimers[c] = 0) = (sc.elapsed >= chunkSendIntervalMs)
         ELSE /\ sc.elapsed >= chunkSendIntervalMs
              /\ sc.sends = <<three>>
              /\ Buffer(s, c) = <<>>
              /\ session[s].chunkTimers[c] = NoTimer

C8_Witness ==
  \E s \in clients, c \in Chats :
    /\ scen[s][c].n = 3
    /\ scen[s][c].fired
    /\ \E f \in inflight : f.sid = s /\ f.chat = c /\ Len(f.messages) = 3

\* C9: after startListening was called on a session that was already
\* listening, the call returned "already_listening" and one message
\* listener is attached; and every message the engine emitted was handed to
\* handleMessage at most once, so no message is buffered twice.
C9_StartListeningIdempotent ==
  /\ \A s \in clients :
       lastResult[s] = "already_listening" =>
         session[s].isListening /\ session[s].listeners = 1
  /\ \A s \in SessionIds, c \in Chats :
       enqueued[s][c] + pending[s][c] <= emitted[s][c]

C9_Witness ==
  \E s \in clients, c \in Chats :
    /\ lastResult[s] = "already_listening"
    /\ emitted[s][c] = 1
    /\ delivered[s][c] = <<1>>

\* C10: for every session, a step that keeps the session registered lowers
\* reconnectionAttempts only to 0 and only as the engine's 'authenticated'
\* or 'ready' event, and each of these events leaves the counter at 0.
C10_AttemptsResetOnAuthentication ==
  [][\A s \in SessionIds :
       (s \in clients /\ s \in clients') =>
         /\ session'[s].reconnectionAttempts < session[s].reconnectionAttempts =>
              /\ session'[s].reconnectionAttempts = 0
              /\ EngineAuthenticated(s) \/ EngineReady(s)
         /\ (EngineAuthenticated(s) \/ EngineReady(s)) =>
              session'[s].reconnectionAttempts = 0]_vars

C10_Witness ==
  \E s \in clients :
    /\ session[s].lastDisconnectionReason # "none"
    /\ session[s].reconnectionAttempts = 0
    /\ engine[s] \in {"authenticated", "ready"}

\* C11: for every session, a step that keeps the session registered raises
\* reconnectionAttempts only as the engine's 'disconnected' or
\* 'auth_failure' event, and then by exactly one; no other step (such as the
\* end of destroyClient during a reconnect) changes the counter upwards.
C11_AttemptsCountEngineEvents ==
  [][\A s \in SessionIds :
       (s \in clients /\ s \in clients'
          /\ session'[s].reconnectionAttempts > session[s].reconnectionAttempts) =>
         /\ session'[s].reconnectionAttempts = session[s].reconnectionAttempts + 1
         /\ \/ EngineAuthFailure(s)
            \/ \E r \in Reasons : EngineDisconnected(s, r)]_vars

\* The last thing the handle of s reported is a disconnect with a permanent
\* reason.
Parked(s) ==
  /\ s \in clients
  /\ engine[s] = "disconnected"
  /\ IsPermanent(session[s].lastDisconnectionReason)

\* A caller acts on s, an invocation a caller or an earlier step started
\* goes on, or the engine reports another disconnect.
ActedOn(s) ==
  \/ InitializeClient(s) \/ ReconnectCall(s) \/ CleanupCall(s)
  \/ StartListening(s) \/ StopListeningCall(s)
  \/ proc[s].pc # "idle" \/ cleaning[s]
  \/ \E r \in Reasons : EngineDisconnected(s, r)

\* C12: a 'disconnected' event with a permanent reason schedules no
\* reconnection and leaves the session registered and disconnected; and
\* from then on the session stays so (registered, disconnected, same
\* handle, nothing new scheduled) in every step that is not a caller acting
\* on it.
C12_PermanentDisconnectStays ==
  [][\A s \in SessionIds :
       /\ \A r \in Reasons :
            (IsPermanent(r) /\ EngineDisconnected(s, r)) =>
              /\ reconnects'[s] = reconnects[s]
              /\ Parked(s)' /\ ~session'[s].isConnected
       /\ (Parked(s) /\ ~ActedOn(s)) =>
            /\ Parked(s)' /\ ~session'[s].isConnected
            /\ proc'[s].pc = "idle"
            /\ reconnects'[s] = reconnects[s]]_vars

\* C13: a 'disconnected' event that brings reconnectionAttempts above the
\* configured maximum (reconnection.maxAttempts, default 5) schedules no
\* reconnection and leaves the session in the registry; hence the number of
\* automatic reconnections scheduled since the last authentication never
\* exceeds the configured maximum.
C13_AttemptCeiling ==
  [][\A s \in SessionIds :
       /\ \A r \in Reasons :
            (EngineDisconnected(s, r)
               /\ session'[s].reconnectionAttempts > reconnection.maxAttempts) =>
              /\ reconnects'[s] = reconnects[s]
              /\ scheduled'[s] = scheduled[s]
              /\ s \in clients'
       /\ scheduled'[s] <= reconnection.maxAttempts]_vars

\* config.reconnection defaults next to the cap the service applies.
ReconnectCapMs == 30000

RECURSIVE Pow(_, _)
Pow(b, e) == IF e = 0 THEN 1 ELSE b * Pow(b, e - 1)

\* The delays getReconnectionDelay can return for an attempt under a cap:
\* the capped exponential plus up to 10% of jitter.
getReconnectionDelay(attempt, maxDelay) ==
  LET delay == Min(DefaultBaseDelayMs * Pow(DefaultBackoffFactor, attempt - 1), maxDelay)
  IN delay .. (delay + delay \div 10)

\* C14: a 'disconnected' event with a transient reason that schedules a
\* reconnection schedules it after min(base * factor^(attempts-1), cap),
\* up to jitter, with base 5 s, factor 2 and cap 30 s: about 5, 10, 20 and
\* 30 s for attempts 1, 2, 3 and 4.
C14_ExponentialBackoff ==
  [][\A s \in SessionIds : \A r \in Reasons :
       (EngineDisconnected(s, r) /\ scheduled'[s] = scheduled[s] + 1) =>
         \E d \in getReconnectionDelay(session'[s].reconnectionAttempts, ReconnectCapMs) :
           reconnects'[s] = Schedule(reconnects[s], d)]_vars

\* The restoration promises of an id that have not settled.
Live(s) == {i \in 1..Len(promises[s]) : promises[s][i].state = "pending"}

\* C15: at any time an id has at most one restoration promise that has not
\* settled, also after initializeClient(id, {fromDisk: true}) ran for an id
\* that had an entry or a session.
C15_OneLiveHandle ==
  \A s \in SessionIds : Cardinality(Live(s)) <= 1

C18_ReadyResolvesHandle ==
  [][\A s \in SessionIds :
       (EngineReady(s) /\ isRestoring(s)) =>
         /\ restorationPromises'[s] = NoHandle
         /\ promises'[s][restorationPromises[s].p].state = "resolved"
         /\ promises'[s][restorationPromises[s].p].value =
              [sessionId |-> s, status |-> "ready", readyAt |-> TRUE]]_vars

\* A session is ready, its restoration promise was resolved and its id has
\* no entry.
C18_Witness ==
  \E s \in clients :
    /\ engine[s] = "ready"
    /\ ~isRestoring(s)
    /\ \E i \in 1..Len(promises[s]) :
         promises[s][i].state = "resolved" /\ promises[s][i].value.sessionId = s

\* C19: when the client.initialize() of an initializeClient rejects or
\* times out, the entry of the id, if any, is rejected and deleted, the
\* session is torn down (it has left the registry, where the retry of
\* reconnectSession may have put a new session under the id, or its
\* cleanupSession awaits client.destroy() and then deletes it), and the call
\* throws: it ends there unless reconnectSession made it inside its try,
\* and a restoreSessionsOnStart that awaited it keeps the failure.
C19_InitializeFailureTearsDown ==
  [][\A s \in SessionIds :
       (InitializeFail(s) \/ RestoreInitFailed(s)) =>
         /\ restorationPromises'[s] = NoHandle
         /\ isRestoring(s) =>
              promises'[s][restorationPromises[s].p].state = "rejected"
         /\ s \notin clients' \/ cleaning'[s] \/ created' > created
         /\ proc[s].final => proc'[s].pc = "idle"
         /\ restorer.cur = s => s \in restorer'.threw]_vars

\* An initializeClient that restoreSessionsOnStart awaited failed: its
\* promise is rejected, the id has no entry, the session is being torn down
\* or gone, and the failure is kept.
C19_Witness ==
  \E s \in restorer.threw :
    /\ ~isRestoring(s)
    /\ s \notin clients \/ cleaning[s]
    /\ \E i \in 1..Len(promises[s]) :
         /\ promises[s][i].state = "rejected"
         /\ promises[s][i].value.status = "init error"

\* C20: restoreSessionsOnStart logs its summary only once every restoration
\* promise created for the folders it found has settled, and a restoration
\* that fails never ends the run with folders left to restore.
C20_BulkRestoreWaitsForAll ==
  /\ restorer.summary =>
       \A s \in SessionIds : \A i \in 1..Len(promises[s]) :
         promises[s][i].state # "pending"
  /\ ~(Exited /\ restorer.todo # <<>>)

\* C21: when the timer of a waitForSessionReady call goes off, only the
\* call fails: the entry of the id stays in restorationPromises, every
\* promise is as it was, the one raced still pending, and the registry, the
\* session, its client and the initializeClient in progress are as they
\* were.
C21_WaitTimeoutFailsOnlyTheCaller ==
  [][\A s \in SessionIds :
       (waiter[s].out = "waiting" /\ waiter'[s].out = "timeout") =>
         /\ WaitResult(s)' = "rejected"
         /\ restorationPromises'[s] = restorationPromises[s]
         /\ promises' = promises
         /\ promises'[s][waiter[s].p].state = "pending"
         /\ clients' = clients /\ session' = session
         /\ engine' = engine /\ proc' = proc]_vars

\* The call timed out and the session it waited for became connected and
\* resolved the promise the call had raced.
C21_Witness ==
  \E s \in SessionIds :
    /\ waiter[s].out = "timeout"
    /\ s \in clients /\ session[s].isConnected
    /\ restorationPromises[s].p = 0
    /\ promises[s][waiter[s].p].state = "resolved"

\* C22: when a session is deleted from the registry, none of its chunk
\* timers is armed, none of its buffers holds a message and
\* restorationPromises has no entry of its id: all were released before the
\* delete.
C22_ReleasedBeforeRemoval ==
  \A s \in SessionIds : gone[s] = Released

\* C23: a session that left the registry has no reconnection callback
\* pending, and a callback that runs while its id is not in the registry
\* binds no client, creates no session and starts nothing.
C23_DestroyCancelsReconnect ==
  /\ [](\A s \in SessionIds : s \notin clients => reconnects[s] = <<>>)
  /\ [][\A s \in SessionIds :
          (s \notin clients /\ Len(reconnects'[s]) < Len(reconnects[s])) =>
            /\ clients' = clients /\ session' = session
            /\ engine' = engine /\ proc' = proc /\ created' = created]_vars

\* C24: the registry never holds more sessions than config.maxSessions,
\* however the initializeClient calls in progress interleave.
C24_RegistryWithinQuota ==
  Cardinality(clients) <= maxSessions

\* What the specification calls an invalid id: no non-empty string, shorter
\* than 3 or longer than the maximum length, with a character that is no
\* letter, digit, hyphen or underscore, or a reserved word.
InvalidId(id) ==
  \/ id.type # "string" \/ id.chars = <<>>
  \/ Len(id.chars) < 3
  \/ Len(id.chars) > security.maxSessionIdLength
  \/ ~MatchesAllowedChars(id.chars)
  \/ id.chars \in reservedWords

\* An initializeClient call was rejected and wrote nothing.
RejectedUntouched ==
  /\ asked'.answer = "rejected"
  /\ UNCHANGED <<clients, session, engine, proc, created, restorationPromises,
                 promises>>

C27_FilteredChatIsSilent ==
  [][\A s \in Followed, c \in Chats :
       (s \in clients /\ session[s].chatFilters[c] = "off") =>
         /\ enqueued'[s][c] = enqueued[s][c]
         /\ \A f \in inflight' \ inflight : ~(f.sid = s /\ f.chat = c)]_vars

\* The criteria the specification gives the sweep: inactive without a
\* client beyond the inactivity threshold, total age beyond the expiry
\* threshold, or reconnection attempts beyond the ceiling.
MeetsCriterion(sr) ==
  \/ (~sr.client /\ sr.idle >= 1)
  \/ sr.age = 2
  \/ sr.reconnectionAttempts > reconnection.maxAttempts

\* C28: a sweep tears a session down if and only if it was asked to force
\* or the session meets a criterion, and leaves every other session as it
\* is.
C28_SweepTearsDownByCriteria ==
  [][\A s \in SessionIds :
       (sweep.pc = "running" /\ s \in sweep'.seen \ sweep.seen) =>
         /\ (s \notin clients' \/ cleaning'[s])
              <=> (sweep.query = "true" \/ MeetsCriterion(session[s]))
         /\ \A o \in SessionIds \ {s} :
              /\ (o \in clients') = (o \in clients)
              /\ session'[o] = session[o] /\ engine'[o] = engine[o]]_vars

\* C29: when cleaning up a session fails during a sweep, the failure is
\* recorded in the report of the sweep for that session, and the sweep goes
\* on to the remaining sessions.
C29_SweepRecordsCleanupErrors ==
  /\ [](\A s \in sweep.failed : s \in sweep.errors)
  /\ [][sweep'.failed # sweep.failed => sweep'.pc = "running"]_vars

\* C30: for a session created without fromDisk, a 'qr' of the engine brings
\* qr_ready to the room of the session, and a 'ready' brings connected and
\* makes getSessionInfo report isConnected.
C30_QrAndReadyReachTheFanout ==
  [][\A s \in SessionIds :
       /\ (\E wrote \in BOOLEAN : EngineQr(s, wrote)) =>
            fanout'[s] = "qr_ready"
       /\ EngineReady(s) =>
            /\ fanout'[s] = "connected"
            /\ getSessionInfo(s)'.isConnected]_vars

\* C31: a 'disconnected' event whose reason is neither permanent nor one of
\* the listed temporary reasons schedules a reconnection like a temporary
\* one, as long as the attempts stay within the ceiling.
C31_UnclassifiedReasonRetries ==
  [][\A s \in SessionIds : \A r \in Reasons :
       (/\ ~IsPermanent(r) /\ ~IsTemporary(r)
        /\ EngineDisconnected(s, r)
        /\ session'[s].reconnectionAttempts <= maxReconnectionAttempts) =>
         /\ scheduled'[s] = scheduled[s] + 1
         /\ Len(reconnects'[s]) = Len(reconnects[s]) + 1]_vars

\* The session ids of the folders restoreSessionsOnStart found.
Identities == {SessionIdOf(restorer.found[i]) : i \in 1..Len(restorer.found)}

\* C32: the summary of restoreSessionsOnStart counts every session id found
\* on disk once, as successful or as failed: the two counts add up to the
\* number of ids found.
C32_SummaryCountsEveryIdentity ==
  restorer.summary =>
    /\ restorer.successful \cup restorer.failed = Identities
    /\ restorer.successful \cap restorer.failed = {}
    /\ Cardinality(restorer.successful) + Cardinality(restorer.failed)
         = Cardinality(Identities)

\* C33: isListening does not follow the connection: a 'disconnected' event,
\* a reconnection and the replacement of the client leave it as it is; only
\* startListening, stopListening and the removal of the session change it.
C33_ListeningIndependentOfConnection ==
  [][\A s \in SessionIds :
       (/\ s \in clients /\ s \in clients'
        /\ session'[s].isListening # session[s].isListening) =>
         \/ StartListening(s)
         \/ stopProc'[s] # stopProc[s]
         \/ cleaning'[s]]_vars

\* C40: a session that is listening has exactly one message listener on
\* its current client, and a session that is not listening has none.
C40_OneConsumerWhenListening ==
  \A s \in clients :
    IF session[s].isListening
    THEN session[s].client /\ session[s].listeners = 1
    ELSE session[s].listeners = 0

\* C34: a sweep goes through the sessions that were in the registry when it
\* started, each once, and neither evaluates nor cleans up a session that
\* was inserted while it runs.
C34_SweepWorksOnASnapshot ==
  /\ sweep.seen \subseteq sweep.start
  /\ sweep.expired \subseteq sweep.start

\* C35: from the moment stopListening has reported listening_stopped until
\* startListening is called again, no inbound message is pushed to a buffer
\* of the session, no chunk timer of the session is armed and no batch of the
\* session is sent, whenever the handling of the message began.
C35_NothingHandledAfterStop ==
  [][\A s \in SessionIds :
       (/\ s \in clients
        /\ lastResult[s] = "listening_stopped"
        /\ ~session[s].isListening) =>
         \A c \in Chats :
           /\ enqueued'[s][c] = enqueued[s][c]
           /\ session'[s].chunkTimers[c] = NoTimer
           /\ \A f \in inflight' : (f.sid = s /\ f.chat = c) => f \in inflight]_vars

\* C36: stopListening on a session that is not listening reports
\* not_listening and does nothing else: no buffer of the session grows and
\* nothing is sent.
C36_StopWhenNotListening ==
  [][\A s \in SessionIds :
       (StopListeningCall(s) /\ ~session[s].isListening) =>
         /\ lastResult'[s] = "not_listening"
         /\ session'[s].messageBuffer = session[s].messageBuffer
         /\ inflight' = inflight]_vars

\* C37: an event of a client that was destroyed or replaced changes nothing
\* of the session: not isConnected, not reconnectionAttempts, not the entry
\* of the id or its promise, and it schedules no reconnection.
C37_LateEventsChangeNothing ==
  [][\A s \in SessionIds :
       (LateReady(s) \/ \E r \in Reasons : LateDisconnected(s, r)) =>
         /\ session'[s].isConnected = session[s].isConnected
         /\ session'[s].reconnectionAttempts = session[s].reconnectionAttempts
         /\ restorationPromises'[s] = restorationPromises[s]
         /\ promises'[s] = promises[s]
         /\ reconnects'[s] = reconnects[s]]_vars

\* C38: a session has at most one reconnection callback of
\* handleAutomaticReconnection pending at any time, however many
\* 'disconnected' events arrive before the first delay is over.
C38_OnePendingReconnect ==
  \A s \in SessionIds : Len(reconnects[s]) <= 1

\* C39: an initializeClient or reconnectSession for an id that is in the
\* registry is never turned down for the session limit, however full the
\* registry is.
C39_QuotaSparesRegisteredIds ==
  [][\A s \in SessionIds : s \in clients => ~InitializeRejected(s)]_vars

====
